---- MODULE Spec2Model ----
(***************************************************************************)
(* Service layer of the PKM Vault backend: AuthService (register, login,   *)
(* refresh_tokens, update_user, change_password), the token and password   *)
(* helpers of core/security.py, and DocumentService (create, get_by_id,    *)
(* list, update, delete, archive, pin, _apply_tags).                       *)
(*                                                                         *)
(* Strings whose characters matter (titles, contents, tag names, search    *)
(* terms) are sequences of one-character strings; strings that are only    *)
(* compared for equality (emails, usernames, passwords, messages) are      *)
(* TLA+ strings.  An optional value is <<>> (None) or <<v>>.               *)
(* Time is the UTC clock in whole seconds.                                 *)
(***************************************************************************)
EXTENDS Integers, Sequences, FiniteSets, TLC

VARIABLES
    users,          \* table users: id -> row
    next_user,      \* number of user rows ever inserted (ids are fresh)
    docs,           \* table documents: id -> row
    next_doc,       \* number of document rows ever inserted
    tags,           \* table tags: id -> row
    next_tag,       \* number of tag rows ever inserted
    document_tags,  \* table document_tags: set of <<document_id, tag_id>>
    held,           \* a token pair some client kept, or None
    now,            \* datetime.now(timezone.utc), in seconds
    result,         \* the last call and its response
    work,           \* the units of work in flight: session -> its handler's state
    write_lock      \* the session holding the database's write lock, 0 when free,
                    \* -1 when the database has no such lock

vars == <<users, next_user, docs, next_doc, tags, next_tag, document_tags, held, now, result,
          work, write_lock>>

\* the sessions other requests run in
inflight == <<work, write_lock>>

store == <<users, next_user, docs, next_doc, tags, next_tag, document_tags>>

-----------------------------------------------------------------------------
(* Bounds of the model *)

\* seconds the clock advances one by one (from 0, and again after its jump)
MaxTime == 1

\* documents ever created
MaxDocs == 1

\* tags ever created
MaxTags == 1

\* users ever registered
MaxUsers == 1

\* documents ever created where lists are paged
MaxListed == 2

\* tags ever created where documents are tagged again
MaxTagged == 2

\* users registered, and being registered, where registrations race
MaxRegistering == 2

\* documents, and tags, created and being created where requests race
MaxRacing == 2

-----------------------------------------------------------------------------
(* Program constants *)

HTTP_200_OK == 200

HTTP_400_BAD_REQUEST == 400

HTTP_401_UNAUTHORIZED == 401

HTTP_403_FORBIDDEN == 403

HTTP_404_NOT_FOUND == 404

HTTP_409_CONFLICT == 409

HTTP_500_INTERNAL_SERVER_ERROR == 500

jwt_access_token_expire_minutes == 15

jwt_refresh_token_expire_days == 7

\* timedelta(minutes = m), in seconds
minutes(m) == m * 60

\* timedelta(days = d), in seconds
days(d) == d * 24 * 60 * 60

secret_key == "dev-secret-key-change-in-production-minimum-32-characters"

-----------------------------------------------------------------------------
(* Values *)

None == <<>>

Some(v) == <<v>>

IsNone(o) == o = <<>>

Min(a, b) == IF a < b THEN a ELSE b

\* str.lower() on one character
LowerChar(c) ==
    CASE c = "A" -> "a"
      [] c = "B" -> "b"
      [] c = "W" -> "w"
      [] OTHER -> c

\* str.lower()
Lower(s) == [i \in 1..Len(s) |-> LowerChar(s[i])]

\* code point of a character (BINARY collation of the title column)
Ord(c) ==
    CASE c = " " -> 32
      [] c = "A" -> 65
      [] c = "B" -> 66
      [] c = "W" -> 87
      [] c = "a" -> 97
      [] c = "b" -> 98
      [] c = "w" -> 119

RECURSIVE StrLess(_, _)
\* s < t for two strings, character by character
StrLess(s, t) ==
    IF t = <<>> THEN FALSE
    ELSE IF s = <<>> THEN TRUE
    ELSE IF Ord(Head(s)) # Ord(Head(t)) THEN Ord(Head(s)) < Ord(Head(t))
    ELSE StrLess(Tail(s), Tail(t))

RECURSIVE LStrip(_)
LStrip(s) == IF s # <<>> /\ Head(s) = " " THEN LStrip(Tail(s)) ELSE s

RECURSIVE RStrip(_)
RStrip(s) ==
    IF s # <<>> /\ s[Len(s)] = " " THEN RStrip(SubSeq(s, 1, Len(s) - 1)) ELSE s

\* str.strip()
Strip(s) == RStrip(LStrip(s))

\* column.ilike("%" + term + "%"): case-insensitive substring match
ILike(column, term) ==
    \E i \in 1..(Len(column) - Len(term) + 1) :
        Lower(SubSeq(column, i, i + Len(term) - 1)) = Lower(term)

-----------------------------------------------------------------------------
(* Responses *)

\* a call and what it answered: user is the acting user (0 when the call has
\* none), arg the document id or the request, body the returned value, detail
\* the message of the raised AppException ("" when none was raised)
Response(op, user, arg, status, detail, body) ==
    [op |-> op, user |-> user, arg |-> arg, status |-> status,
     detail |-> detail, body |-> body]

NoCall == Response("none", 0, 0, 0, "", None)

NotFoundError(op, user, arg) ==
    Response(op, user, arg, HTTP_404_NOT_FOUND, "Document not found", None)

ForbiddenError(op, user, arg) ==
    Response(op, user, arg, HTTP_403_FORBIDDEN, "Access denied", None)

InternalError(op, user, arg) ==
    Response(op, user, arg, HTTP_500_INTERNAL_SERVER_ERROR, "Internal Server Error", None)

-----------------------------------------------------------------------------
(* models/document.py, models/tag.py *)

\* a row of table documents as create() fills it; the columns the service
\* never writes (content_html, metadata_json, embedding, importance_score,
\* source_date, is_processed) keep their defaults and are left out
Document(user_id, data) ==
    [user_id |-> user_id,
     title |-> data.title,
     content_raw |-> data.content,
     content_plain |-> data.content,
     doc_type |-> data.doc_type,
     source_type |-> "manual",
     source_url |-> data.source_url,
     is_pinned |-> data.is_pinned,
     is_archived |-> FALSE,
     created_at |-> now,
     updated_at |-> now,
     last_accessed |-> now]

\* a row of table tags (color and is_auto keep their defaults)
Tag(user_id, name) == [user_id |-> user_id, name |-> name]

\* the document_tags rows of one document
TagsOf(DT, document_id) == {dt \in DT : dt[1] = document_id}

\* a relationship without the delete cascade: the association rows stay
CascadeDelete_keeping_rows(DT, document_id) == DT

\* Document.document_tags with cascade "all, delete-orphan": deleting the
\* document deletes its association rows
CascadeDelete(DT, document_id) == DT \ TagsOf(DT, document_id)

-----------------------------------------------------------------------------
(* DocumentService._apply_tags *)

\* tag_name.strip().lower()
NormalizeTagName(tag_name) == Lower(Strip(tag_name))

RECURSIVE ApplyLoop(_, _, _)
\* the for loop: acc.tags is the tags table so far, acc.added the tag ids of
\* the DocumentTag objects added to the session, in order
ApplyLoop(user, tag_names, acc) ==
    IF tag_names = <<>> THEN acc
    ELSE LET tag_name == NormalizeTagName(Head(tag_names))
             found == {t \in DOMAIN acc.tags :
                          acc.tags[t].user_id = user /\ acc.tags[t].name = tag_name}
         IN  IF tag_name = <<>> THEN ApplyLoop(user, Tail(tag_names), acc)
             ELSE IF found # {}
             THEN ApplyLoop(user, Tail(tag_names),
                      [acc EXCEPT !.added = Append(@, CHOOSE t \in found : TRUE)])
             ELSE ApplyLoop(user, Tail(tag_names),
                      [tags |-> (acc.next_tag :> Tag(user, tag_name)) @@ acc.tags,
                       next_tag |-> acc.next_tag + 1,
                       added |-> Append(acc.added, acc.next_tag)])

\* two DocumentTag rows with one (document_id, tag_id) violate the primary
\* key / uq_document_tag when the session is flushed
HasDuplicate(added) ==
    \E i, j \in 1..Len(added) : i # j /\ added[i] = added[j]

\* _apply_tags without the DELETE of the existing document_tags rows
apply_tags_merging(document_id, user, tag_names) ==
    LET acc == ApplyLoop(user, tag_names,
                   [tags |-> tags, next_tag |-> next_tag, added |-> <<>>])
    IN  [tags |-> acc.tags,
         next_tag |-> acc.next_tag,
         document_tags |->
             document_tags
                 \cup {<<document_id, acc.added[i]>> : i \in 1..Len(acc.added)},
         failed |-> HasDuplicate(acc.added)]

\* the effect of _apply_tags on the tables, and whether the flush of the
\* added rows fails
apply_tags(document_id, user, tag_names) ==
    LET acc == ApplyLoop(user, tag_names,
                   [tags |-> tags, next_tag |-> next_tag, added |-> <<>>])
    IN  [tags |-> acc.tags,
         next_tag |-> acc.next_tag,
         document_tags |->
             (document_tags \ TagsOf(document_tags, document_id))
                 \cup {<<document_id, acc.added[i]>> : i \in 1..Len(acc.added)},
         failed |-> HasDuplicate(acc.added)]

-----------------------------------------------------------------------------
(* DocumentService *)

\* the table without one row
Without(table, id) == [k \in DOMAIN table \ {id} |-> table[k]]

\* get_by_id without the comparison of document.user_id with user_id
get_by_id_any_owner(user, document_id) ==
    IF document_id \notin DOMAIN docs
    THEN [status |-> HTTP_404_NOT_FOUND, docs |-> docs]
    ELSE [status |-> HTTP_200_OK,
          docs |-> [docs EXCEPT ![document_id].last_accessed = now,
                                ![document_id].updated_at = now]]

\* get_by_id that hides the documents of other users behind NotFoundError
get_by_id_hiding(user, document_id) ==
    IF document_id \notin DOMAIN docs \/ docs[document_id].user_id # user
    THEN [status |-> HTTP_404_NOT_FOUND, docs |-> docs]
    ELSE [status |-> HTTP_200_OK,
          docs |-> [docs EXCEPT ![document_id].last_accessed = now,
                                ![document_id].updated_at = now]]

\* get_by_id: the status it ends with and the documents table after its
\* commit.  The commit writes last_accessed; updated_at has onupdate=utc_now
\* and is not in the SET clause, so the UPDATE sets it too
get_by_id(user, document_id) ==
    IF document_id \notin DOMAIN docs
    THEN [status |-> HTTP_404_NOT_FOUND, docs |-> docs]
    ELSE IF docs[document_id].user_id # user
    THEN [status |-> HTTP_403_FORBIDDEN, docs |-> docs]
    ELSE [status |-> HTTP_200_OK,
          docs |-> [docs EXCEPT ![document_id].last_accessed = now,
                                ![document_id].updated_at = now]]

\* the exception get_by_id raised, as a response of operation op
Raised(op, user, document_id, status) ==
    IF status = HTTP_404_NOT_FOUND THEN NotFoundError(op, user, document_id)
    ELSE ForbiddenError(op, user, document_id)

\* the filters of list without where(Document.user_id == user_id)
Matches_any_owner(row, user, filters) ==
    /\ (filters.query # None /\ filters.query[1] # <<>>)
           => (ILike(row.title, filters.query[1])
                  \/ ILike(row.content_plain, filters.query[1]))
    /\ (filters.doc_type # None /\ filters.doc_type[1] # "")
           => row.doc_type = filters.doc_type[1]
    /\ filters.is_pinned # None => row.is_pinned = filters.is_pinned[1]
    /\ IF filters.is_archived # None
       THEN row.is_archived = filters.is_archived[1]
       ELSE row.is_archived = FALSE
    /\ filters.date_from # None => row.created_at >= filters.date_from[1]
    /\ filters.date_to # None => row.created_at <= filters.date_to[1]

\* the filters of list without the else branch that hides archived documents
Matches_archived_shown(row, user, filters) ==
    /\ row.user_id = user
    /\ (filters.query # None /\ filters.query[1] # <<>>)
           => (ILike(row.title, filters.query[1])
                  \/ ILike(row.content_plain, filters.query[1]))
    /\ (filters.doc_type # None /\ filters.doc_type[1] # "")
           => row.doc_type = filters.doc_type[1]
    /\ filters.is_pinned # None => row.is_pinned = filters.is_pinned[1]
    /\ filters.is_archived # None => row.is_archived = filters.is_archived[1]
    /\ filters.date_from # None => row.created_at >= filters.date_from[1]
    /\ filters.date_to # None => row.created_at <= filters.date_to[1]

\* the filters of list as one predicate on a row
Matches(row, user, filters) ==
    /\ row.user_id = user
    /\ (filters.query # None /\ filters.query[1] # <<>>)
           => (ILike(row.title, filters.query[1])
                  \/ ILike(row.content_plain, filters.query[1]))
    /\ (filters.doc_type # None /\ filters.doc_type[1] # "")
           => row.doc_type = filters.doc_type[1]
    /\ filters.is_pinned # None => row.is_pinned = filters.is_pinned[1]
    /\ IF filters.is_archived # None
       THEN row.is_archived = filters.is_archived[1]
       ELSE row.is_archived = FALSE
    /\ filters.date_from # None => row.created_at >= filters.date_from[1]
    /\ filters.date_to # None => row.created_at <= filters.date_to[1]

\* mapped columns of Document the model carries, by the way they compare
TimeColumns == {"created_at", "updated_at", "last_accessed"}

TextColumns == {"title"}

FlagColumns == {"is_pinned", "is_archived"}

DocumentColumns == TimeColumns \cup TextColumns \cup FlagColumns \cup {"id", "user_id"}

\* attributes of class Document that are no column: relationships, methods,
\* the MetaData; desc()/asc() or the query on them raises
DocumentOtherAttributes == {"document_tags", "to_dict", "metadata"}

\* getattr(Document, filters.sort_by, Document.updated_at)
sort_column(sort_by) ==
    IF sort_by \in DocumentColumns \cup DocumentOtherAttributes
    THEN sort_by ELSE "updated_at"

\* the value of a column of document d, and its order
ColumnLess(column, d, e) ==
    IF column \in TimeColumns THEN docs[d][column] < docs[e][column]
    ELSE IF column \in TextColumns THEN StrLess(docs[d][column], docs[e][column])
    ELSE IF column \in FlagColumns THEN ~docs[d][column] /\ docs[e][column]
    ELSE IF column = "user_id" THEN docs[d].user_id < docs[e].user_id
    ELSE d < e

\* every order of the rows in S the ORDER BY allows: rows with equal keys
\* come in any order
Orderings(S, column, sort_order) ==
    {p \in [1..Cardinality(S) -> S] :
        /\ \A i, j \in 1..Cardinality(S) : i # j => p[i] # p[j]
        /\ \A i, j \in 1..Cardinality(S) :
              i < j => IF sort_order = "desc"
                       THEN ~ColumnLess(column, p[i], p[j])
                       ELSE ~ColumnLess(column, p[j], p[i])}

\* OFFSET offset LIMIT limit of a sequence of rows
Paginate(rows, page, limit) ==
    LET offset == (page - 1) * limit
    IN  SubSeq(rows, offset + 1, Min(offset + limit, Len(rows)))

\* list that counts the rows after OFFSET and LIMIT
list_counting_page(user, filters) ==
    LET matching == {d \in DOMAIN docs : Matches(docs[d], user, filters)}
        column == sort_column(filters.sort_by)
    IN  IF column \in DocumentOtherAttributes
        THEN {[raises |-> TRUE, documents |-> <<>>, total |-> 0]}
        ELSE {[raises |-> FALSE,
               documents |-> Paginate(rows, filters.page, filters.limit),
               total |-> Len(Paginate(rows, filters.page, filters.limit))] :
                  rows \in Orderings(matching, column, filters.sort_order)}

\* list: the responses it can give (documents, total), or "raises"
list(user, filters) ==
    LET matching == {d \in DOMAIN docs : Matches(docs[d], user, filters)}
        column == sort_column(filters.sort_by)
    IN  IF column \in DocumentOtherAttributes
        THEN {[raises |-> TRUE, documents |-> <<>>, total |-> 0]}
        ELSE {[raises |-> FALSE,
               documents |-> Paginate(rows, filters.page, filters.limit),
               total |-> Cardinality(matching)] :
                  rows \in Orderings(matching, column, filters.sort_order)}

\* the assignments of update without the "is not None" tests of the two
\* flags: an absent flag is written as False
ApplyFields_resetting_flags(row, data) ==
    [row EXCEPT
        !.title = IF data.title # None THEN data.title[1] ELSE @,
        !.content_raw = IF data.content # None THEN data.content[1] ELSE @,
        !.content_plain = IF data.content # None THEN data.content[1] ELSE @,
        !.doc_type = IF data.doc_type # None THEN data.doc_type[1] ELSE @,
        !.source_url = IF data.source_url # None THEN data.source_url ELSE @,
        !.is_pinned = IF data.is_pinned # None THEN data.is_pinned[1] ELSE FALSE,
        !.is_archived = IF data.is_archived # None THEN data.is_archived[1] ELSE FALSE]

\* the assignments of update to the columns of one row
ApplyFields(row, data) ==
    [row EXCEPT
        !.title = IF data.title # None THEN data.title[1] ELSE @,
        !.content_raw = IF data.content # None THEN data.content[1] ELSE @,
        !.content_plain = IF data.content # None THEN data.content[1] ELSE @,
        !.doc_type = IF data.doc_type # None THEN data.doc_type[1] ELSE @,
        !.source_url = IF data.source_url # None THEN data.source_url ELSE @,
        !.is_pinned = IF data.is_pinned # None THEN data.is_pinned[1] ELSE @,
        !.is_archived = IF data.is_archived # None THEN data.is_archived[1] ELSE @]

\* DocumentService.create
Create(user, data) ==
    /\ LET document_id == next_doc
           applied == IF data.tags # <<>>
                      THEN apply_tags(document_id, user, data.tags)
                      ELSE [tags |-> tags, next_tag |-> next_tag,
                            document_tags |-> document_tags, failed |-> FALSE]
       IN  /\ IF applied.failed
              THEN \* nothing was committed: the session is rolled back
                   /\ UNCHANGED <<docs, next_doc, tags, next_tag, document_tags>>
                   /\ result' = InternalError("create", user, document_id)
              ELSE /\ docs' = (document_id :> Document(user, data)) @@ docs
                   /\ next_doc' = next_doc + 1
                   /\ tags' = applied.tags
                   /\ next_tag' = applied.next_tag
                   /\ document_tags' = applied.document_tags
                   /\ result' = Response("create", user, document_id, HTTP_200_OK,
                                         "", Some(docs'[document_id]))
    /\ UNCHANGED <<users, next_user, held, now, inflight>>

\* DocumentService.get_by_id
GetById(user, document_id) ==
    LET got == get_by_id(user, document_id)
    IN  /\ docs' = got.docs
        /\ result' = IF got.status = HTTP_200_OK
                     THEN Response("get_by_id", user, document_id, HTTP_200_OK,
                                   "", Some(got.docs[document_id]))
                     ELSE Raised("get_by_id", user, document_id, got.status)
        /\ UNCHANGED <<users, next_user, next_doc, tags, next_tag, document_tags, held, now, inflight>>

\* DocumentService.list
List(user, filters) ==
    /\ \E r \in list(user, filters) :
          result' = IF r.raises THEN InternalError("list", user, filters)
                    ELSE Response("list", user, filters, HTTP_200_OK, "",
                                  [documents |-> r.documents, total |-> r.total])
    /\ UNCHANGED <<store, held, now, inflight>>

\* DocumentService.update
Update(user, document_id, data) ==
    LET got == get_by_id(user, document_id)
    IN  IF got.status # HTTP_200_OK
        THEN /\ result' = Raised("update", user, document_id, got.status)
             /\ UNCHANGED <<store, held, now, inflight>>
        ELSE LET applied == IF data.tags # None
                            THEN apply_tags(document_id, user, data.tags[1])
                            ELSE [tags |-> tags, next_tag |-> next_tag,
                                  document_tags |-> document_tags, failed |-> FALSE]
                 row == [ApplyFields(got.docs[document_id], data)
                            EXCEPT !.updated_at = now]
             IN  /\ IF applied.failed
                    THEN \* the commit of get_by_id stays, the rest is rolled back
                         /\ docs' = got.docs
                         /\ UNCHANGED <<tags, next_tag, document_tags>>
                         /\ result' = InternalError("update", user, document_id)
                    ELSE /\ docs' = [got.docs EXCEPT ![document_id] = row]
                         /\ tags' = applied.tags
                         /\ next_tag' = applied.next_tag
                         /\ document_tags' = applied.document_tags
                         /\ result' = Response("update", user, document_id,
                                               HTTP_200_OK, "", Some(row))
                 /\ UNCHANGED <<users, next_user, next_doc, held, now, inflight>>

\* DocumentService.delete
Delete(user, document_id) ==
    LET got == get_by_id(user, document_id)
    IN  IF got.status # HTTP_200_OK
        THEN /\ result' = Raised("delete", user, document_id, got.status)
             /\ UNCHANGED <<store, held, now, inflight>>
        ELSE /\ docs' = Without(got.docs, document_id)
             /\ document_tags' = CascadeDelete(document_tags, document_id)
             /\ result' = Response("delete", user, document_id, HTTP_200_OK, "", None)
             /\ UNCHANGED <<users, next_user, next_doc, tags, next_tag, held, now, inflight>>

\* archive and pin: get_by_id, one flag, updated_at, commit
SetFlag(op, flag, user, document_id, value) ==
    LET got == get_by_id(user, document_id)
    IN  IF got.status # HTTP_200_OK
        THEN /\ result' = Raised(op, user, document_id, got.status)
             /\ UNCHANGED <<store, held, now, inflight>>
        ELSE LET row == [got.docs[document_id] EXCEPT ![flag] = value,
                                                       !.updated_at = now]
             IN  /\ docs' = [got.docs EXCEPT ![document_id] = row]
                 /\ result' = Response(op, user, document_id, HTTP_200_OK, "", Some(row))
                 /\ UNCHANGED <<users, next_user, next_doc, tags, next_tag,
                                document_tags, held, now, inflight>>

\* DocumentService.archive
Archive(user, document_id, archived) ==
    SetFlag("archive", "is_archived", user, document_id, archived)

\* DocumentService.pin
Pin(user, document_id, pinned) ==
    SetFlag("pin", "is_pinned", user, document_id, pinned)

-----------------------------------------------------------------------------
(* api/v1/documents.py *)

\* math.ceil(total / limit) if total > 0 else 0
pages(total, limit) ==
    IF total > 0 THEN (total + limit - 1) \div limit ELSE 0

\* document_to_response(doc): it reads doc.tags, and class Document defines
\* document_tags but no attribute tags, so the read raises AttributeError
document_to_response(document_id) ==
    [raises |-> TRUE, response |-> None]

\* list_documents: the responses the endpoint can give
list_documents(user, filters) ==
    {IF r.raises THEN InternalError("list_documents", user, filters)
     ELSE LET items == [i \in 1..Len(r.documents) |->
                           document_to_response(r.documents[i])]
          IN  IF \E i \in 1..Len(items) : items[i].raises
              THEN InternalError("list_documents", user, filters)
              ELSE Response("list_documents", user, filters, HTTP_200_OK, "",
                            [items |-> [i \in 1..Len(items) |-> items[i].response],
                             total |-> r.total,
                             page |-> filters.page,
                             limit |-> filters.limit,
                             pages |-> pages(r.total, filters.limit)]) :
        r \in list(user, filters)}

\* GET /documents
ListDocuments(user, filters) ==
    /\ \E response \in list_documents(user, filters) : result' = response
    /\ UNCHANGED <<store, held, now, inflight>>

-----------------------------------------------------------------------------
(* core/security.py *)

\* pwd_context.hash: a bcrypt hash is one-way and self-contained; the model
\* keeps what verify can recover from it (the salt is left out)
hash_password(password) == [scheme |-> "bcrypt", secret |-> password]

\* pwd_context.verify
verify_password(plain_password, hashed_password) ==
    hashed_password.scheme = "bcrypt" /\ hashed_password.secret = plain_password

\* jose.jwt.encode: the claims, signed with key (exp becomes whole seconds)
jwt_encode(to_encode, key) == [claims |-> to_encode, key |-> key]

\* jose.jwt.decode: Some(claims), or None for a JWTError; the signature must
\* be made with key, and the token is expired when exp < now
jwt_decode(token, key) ==
    IF token.key # key THEN None
    ELSE IF token.claims.exp < now THEN None
    ELSE Some(token.claims)

\* create_access_token(subject, expires_delta = None); no caller passes
\* extra_data
create_access_token(subject, expires_delta) ==
    LET delta == IF expires_delta = None
                 THEN minutes(jwt_access_token_expire_minutes)
                 ELSE expires_delta[1]
    IN  jwt_encode([sub |-> subject, exp |-> now + delta, type |-> "access"],
                   secret_key)

\* create_refresh_token(subject, expires_delta = None)
create_refresh_token(subject, expires_delta) ==
    LET delta == IF expires_delta = None
                 THEN days(jwt_refresh_token_expire_days)
                 ELSE expires_delta[1]
    IN  jwt_encode([sub |-> subject, exp |-> now + delta, type |-> "refresh"],
                   secret_key)

\* verify_token without the comparison of payload.get("type") with token_type
verify_token_any_type(token, token_type) == jwt_decode(token, secret_key)

\* verify_token(token, token_type): Some(payload) or None
verify_token(token, token_type) ==
    LET payload == jwt_decode(token, secret_key)
    IN  IF payload = None THEN None
        ELSE IF payload[1].type # token_type THEN None
        ELSE payload

\* create_token_pair(user_id)
create_token_pair(user_id) ==
    [access_token |-> create_access_token(user_id, None),
     refresh_token |-> create_refresh_token(user_id, None),
     token_type |-> "bearer"]

-----------------------------------------------------------------------------
(* schemas/user.py, models/user.py *)

\* UserCreate / UserUpdate.validate_username: v.lower()
validate_username(v) == Lower(v)

\* UserCreate: the request as the service receives it
UserCreate(raw) == [raw EXCEPT !.username = validate_username(@)]

\* json.dumps of a settings dict
json_dumps(settings) == [json |-> settings]

\* the row register() inserts
User(data) ==
    [email |-> data.email,
     username |-> data.username,
     password_hash |-> hash_password(data.password),
     is_active |-> TRUE,
     settings |-> json_dumps("theme-system"),
     created_at |-> now,
     updated_at |-> now]

-----------------------------------------------------------------------------
(* AuthService *)

UnauthorizedError(op, arg, detail) ==
    Response(op, 0, arg, HTTP_401_UNAUTHORIZED, detail, None)

ConflictError(op, user, arg, detail) ==
    Response(op, user, arg, HTTP_409_CONFLICT, detail, None)

BadRequestError(op, user, arg, detail) ==
    Response(op, user, arg, HTTP_400_BAD_REQUEST, detail, None)

\* select(User).where(User.email == email): the ids of the rows
ByEmail(email) == {u \in DOMAIN users : users[u].email = email}

\* select(User).where(User.username == username)
ByUsername(username) == {u \in DOMAIN users : users[u].username = username}

\* register that writes before it checks: the row with the email gets the
\* password of the request, and then the conflict is raised
register_write_first(data) ==
    IF ByEmail(data.email) # {}
    THEN [response |-> ConflictError("register", 0, data, "Email already registered"),
          users |-> [u \in DOMAIN users |->
                       IF u \in ByEmail(data.email)
                       THEN [users[u] EXCEPT !.password_hash = hash_password(data.password),
                                             !.updated_at = now]
                       ELSE users[u]]]
    ELSE IF ByUsername(data.username) # {}
    THEN [response |-> ConflictError("register", 0, data, "Username already taken"),
          users |-> users]
    ELSE [response |-> Response("register", next_user, data, HTTP_200_OK, "",
                                Some(create_token_pair(next_user))),
          users |-> (next_user :> User(data)) @@ users]

\* AuthService.register: the response, and the users table after it
register(data) ==
    IF ByEmail(data.email) # {}
    THEN [response |-> ConflictError("register", 0, data, "Email already registered"),
          users |-> users]
    ELSE IF ByUsername(data.username) # {}
    THEN [response |-> ConflictError("register", 0, data, "Username already taken"),
          users |-> users]
    ELSE [response |-> Response("register", next_user, data, HTTP_200_OK, "",
                                Some(create_token_pair(next_user))),
          users |-> (next_user :> User(data)) @@ users]

\* AuthService.login: the response
login(data) ==
    LET found == ByEmail(data.email)
        user == CHOOSE u \in found : TRUE
    IN  IF found = {}
        THEN UnauthorizedError("login", data, "Invalid email or password")
        ELSE IF ~verify_password(data.password, users[user].password_hash)
        THEN UnauthorizedError("login", data, "Invalid email or password")
        ELSE IF ~users[user].is_active
        THEN UnauthorizedError("login", data, "Account is disabled")
        ELSE Response("login", user, data, HTTP_200_OK, "",
                      Some(create_token_pair(user)))

\* refresh_tokens that also refuses a token issued before the last change of
\* its user's row (a password change revokes the tokens issued before it)
refresh_tokens_revoking(refresh_token) ==
    LET payload == verify_token(refresh_token, "refresh")
        user_id == payload[1].sub
        issued_at == payload[1].exp - days(jwt_refresh_token_expire_days)
    IN  IF payload = None
        THEN UnauthorizedError("refresh_tokens", refresh_token, "Invalid or expired refresh token")
        ELSE IF user_id \notin DOMAIN users
        THEN UnauthorizedError("refresh_tokens", refresh_token, "User not found")
        ELSE IF ~users[user_id].is_active
        THEN UnauthorizedError("refresh_tokens", refresh_token, "Account is disabled")
        ELSE IF issued_at < users[user_id].updated_at
        THEN UnauthorizedError("refresh_tokens", refresh_token, "Invalid or expired refresh token")
        ELSE Response("refresh_tokens", user_id, refresh_token, HTTP_200_OK, "",
                      Some(create_token_pair(user_id)))

\* AuthService.refresh_tokens: the response
refresh_tokens(refresh_token) ==
    LET payload == verify_token(refresh_token, "refresh")
        user_id == payload[1].sub
    IN  IF payload = None
        THEN UnauthorizedError("refresh_tokens", refresh_token, "Invalid or expired refresh token")
        ELSE IF "sub" \notin DOMAIN payload[1]
        THEN UnauthorizedError("refresh_tokens", refresh_token, "Invalid token payload")
        ELSE IF user_id \notin DOMAIN users
        THEN UnauthorizedError("refresh_tokens", refresh_token, "User not found")
        ELSE IF ~users[user_id].is_active
        THEN UnauthorizedError("refresh_tokens", refresh_token, "Account is disabled")
        ELSE Response("refresh_tokens", user_id, refresh_token, HTTP_200_OK, "",
                      Some(create_token_pair(user_id)))

\* update_user without User.id != user.id in the uniqueness query
update_user_including_self(user, data) ==
    LET taken == data.username # None /\ ByUsername(data.username[1]) # {}
        row == [users[user] EXCEPT
                   !.username = IF data.username # None THEN data.username[1] ELSE @,
                   !.settings = IF data.settings # None
                                THEN json_dumps(data.settings[1]) ELSE @,
                   !.updated_at = now]
    IN  IF taken
        THEN [response |-> ConflictError("update_user", user, data, "Username already taken"),
              users |-> users]
        ELSE [response |-> Response("update_user", user, data, HTTP_200_OK, "", Some(row)),
              users |-> [users EXCEPT ![user] = row]]

\* AuthService.update_user: the response, and the users table after it
update_user(user, data) ==
    LET taken == data.username # None
                    /\ (ByUsername(data.username[1]) \ {user}) # {}
        row == [users[user] EXCEPT
                   !.username = IF data.username # None THEN data.username[1] ELSE @,
                   !.settings = IF data.settings # None
                                THEN json_dumps(data.settings[1]) ELSE @,
                   !.updated_at = now]
    IN  IF taken
        THEN [response |-> ConflictError("update_user", user, data, "Username already taken"),
              users |-> users]
        ELSE [response |-> Response("update_user", user, data, HTTP_200_OK, "", Some(row)),
              users |-> [users EXCEPT ![user] = row]]

\* change_password that writes updated_at before it verifies the old password
change_password_touching(user, old_password, new_password) ==
    IF ~verify_password(old_password, users[user].password_hash)
    THEN [response |-> BadRequestError("change_password", user,
                                        <<old_password, new_password>>,
                                        "Current password is incorrect"),
          users |-> [users EXCEPT ![user].updated_at = now]]
    ELSE [response |-> Response("change_password", user,
                                <<old_password, new_password>>, HTTP_200_OK, "", None),
          users |-> [users EXCEPT ![user].password_hash = hash_password(new_password),
                                  ![user].updated_at = now]]

\* change_password that verifies the old password and bumps updated_at, but
\* does not store the hash of the new password
change_password_keeping_hash(user, old_password, new_password) ==
    IF ~verify_password(old_password, users[user].password_hash)
    THEN [response |-> BadRequestError("change_password", user,
                                        <<old_password, new_password>>,
                                        "Current password is incorrect"),
          users |-> users]
    ELSE [response |-> Response("change_password", user,
                                <<old_password, new_password>>, HTTP_200_OK, "", None),
          users |-> [users EXCEPT ![user].updated_at = now]]

\* AuthService.change_password: the response, and the users table after it
change_password(user, old_password, new_password) ==
    IF ~verify_password(old_password, users[user].password_hash)
    THEN [response |-> BadRequestError("change_password", user,
                                        <<old_password, new_password>>,
                                        "Current password is incorrect"),
          users |-> users]
    ELSE [response |-> Response("change_password", user,
                                <<old_password, new_password>>, HTTP_200_OK, "", None),
          users |-> [users EXCEPT ![user].password_hash = hash_password(new_password),
                                  ![user].updated_at = now]]

\* the tokens of a response, as a client can keep them
TokensOf(response) ==
    IF response.body = None THEN {}
    ELSE {response.body[1].access_token, response.body[1].refresh_token}

\* a client keeps the tokens of the response, or the ones it had
Keep(response, keep) ==
    held' = IF keep /\ response.status = HTTP_200_OK THEN TokensOf(response) ELSE held

Register(raw, keep) ==
    LET r == register(UserCreate(raw))
    IN  /\ users' = r.users
        /\ next_user' = IF r.response.status = HTTP_200_OK THEN next_user + 1 ELSE next_user
        /\ result' = r.response
        /\ Keep(r.response, keep)
        /\ UNCHANGED <<docs, next_doc, tags, next_tag, document_tags, now, inflight>>

Login(data, keep) ==
    /\ result' = login(data)
    /\ Keep(login(data), keep)
    /\ UNCHANGED <<store, now, inflight>>

RefreshTokens(refresh_token, keep) ==
    /\ result' = refresh_tokens(refresh_token)
    /\ Keep(refresh_tokens(refresh_token), keep)
    /\ UNCHANGED <<store, now, inflight>>

\* api/v1/auth.py logout: deletes the cookie of the response, nothing else
Logout(user) ==
    /\ result' = Response("logout", user, 0, HTTP_200_OK, "Successfully logged out", None)
    /\ UNCHANGED <<store, held, now, inflight>>

UpdateUser(user, data) ==
    LET r == update_user(user, [data EXCEPT
                 !.username = IF @ # None THEN Some(validate_username(@[1])) ELSE @])
    IN  /\ users' = r.users
        /\ result' = r.response
        /\ UNCHANGED <<next_user, docs, next_doc, tags, next_tag, document_tags, held, now, inflight>>

ChangePassword(user, old_password, new_password) ==
    LET r == change_password(user, old_password, new_password)
    IN  /\ users' = r.users
        /\ result' = r.response
        /\ UNCHANGED <<next_user, docs, next_doc, tags, next_tag, document_tags, held, now, inflight>>

\* outside the service: an administrator clears User.is_active
Deactivate(user) ==
    /\ users[user].is_active
    /\ users' = [users EXCEPT ![user].is_active = FALSE]
    /\ UNCHANGED result
    /\ UNCHANGED <<next_user, docs, next_doc, tags, next_tag, document_tags, held, now, inflight>>

\* outside the service: the storage layer deletes a users row
RemoveUser(user) ==
    /\ users' = Without(users, user)
    /\ UNCHANGED result
    /\ UNCHANGED <<next_user, docs, next_doc, tags, next_tag, document_tags, held, now, inflight>>

\* the clock advances by delta seconds
Tick(delta) ==
    /\ now' = now + delta
    /\ UNCHANGED <<store, held, result, inflight>>

-----------------------------------------------------------------------------
(* core/security.py called directly: the tokens issued last are the ones a
   caller holds *)

CreateAccessToken(subject, expires_delta) ==
    LET token == create_access_token(subject, expires_delta)
    IN  /\ result' = Response("create_access_token", subject, expires_delta,
                              HTTP_200_OK, "", Some(token))
        /\ held' = {token}
        /\ UNCHANGED <<store, now, inflight>>

CreateRefreshToken(subject, expires_delta) ==
    LET token == create_refresh_token(subject, expires_delta)
    IN  /\ result' = Response("create_refresh_token", subject, expires_delta,
                              HTTP_200_OK, "", Some(token))
        /\ held' = {token}
        /\ UNCHANGED <<store, now, inflight>>

CreateTokenPair(user_id) ==
    LET pair == create_token_pair(user_id)
    IN  /\ result' = Response("create_token_pair", user_id, 0, HTTP_200_OK, "",
                              Some(pair))
        /\ held' = {pair.access_token, pair.refresh_token}
        /\ UNCHANGED <<store, now, inflight>>

\* the body of the response is what verify_token returns
VerifyToken(token, token_type) ==
    /\ result' = Response("verify_token", 0,
                          [token |-> token, token_type |-> token_type],
                          HTTP_200_OK, "", verify_token(token, token_type))
    /\ UNCHANGED <<store, held, now, inflight>>

-----------------------------------------------------------------------------
(* The document service, called one request at a time by two registered users *)

Alice == [email |-> "alice@x.com", username |-> <<"a", "b", "a">>, password |-> "Passw0rd"]

Bob == [email |-> "bob@x.com", username |-> <<"b", "a", "b">>, password |-> "Passw0rd"]

TagLists == {<<>>, << <<"W">> >>, << <<"w">>, <<" ", "W", " ">> >>}

CreateRequests ==
    [title : {<<"A", "b">>}, content : {<<>>}, doc_type : {"note"}, source_url : {None},
     is_pinned : {FALSE}, tags : {<<>>, << <<"W">> >>}]

NoUpdate ==
    [title |-> None, content |-> None, doc_type |-> None, source_url |-> None,
     is_pinned |-> None, is_archived |-> None, tags |-> None]

UpdateRequests ==
    {[NoUpdate EXCEPT !.is_pinned = Some(TRUE)],
     [NoUpdate EXCEPT !.is_archived = Some(TRUE)]}
        \cup {[NoUpdate EXCEPT !.tags = Some(l)] : l \in TagLists}

DefaultFilters ==
    [query |-> None, doc_type |-> None, is_pinned |-> None, is_archived |-> None,
     date_from |-> None, date_to |-> None, sort_by |-> "updated_at",
     sort_order |-> "desc", page |-> 1, limit |-> 20]

\* the filters the list action is called with: the default, and each field
\* of it set in turn
ListFilters ==
    {DefaultFilters}
        \cup {[DefaultFilters EXCEPT !.query = Some(q)] : q \in {<<"B">>, <<"w">>}}
        \cup {[DefaultFilters EXCEPT !.doc_type = Some(t)] : t \in {"note", "pdf"}}
        \cup {[DefaultFilters EXCEPT !.is_pinned = Some(b)] : b \in BOOLEAN}
        \cup {[DefaultFilters EXCEPT !.is_archived = Some(b)] : b \in BOOLEAN}
        \cup {[DefaultFilters EXCEPT !.date_from = Some(1)]}
        \cup {[DefaultFilters EXCEPT !.date_to = Some(0)]}
        \cup {[DefaultFilters EXCEPT !.sort_by = c, !.sort_order = o] :
                 c \in {"title", "owner", "user_id", "to_dict"}, o \in {"asc", "desc"}}
        \cup {[DefaultFilters EXCEPT !.page = 2, !.limit = 1]}

DocumentIds == 1..(MaxDocs + 1)

Init ==
    /\ now = 0
    /\ users = (1 :> User(UserCreate(Alice))) @@ (2 :> User(UserCreate(Bob)))
    /\ next_user = 3
    /\ docs = <<>>
    /\ next_doc = 1
    /\ tags = <<>>
    /\ next_tag = 1
    /\ document_tags = {}
    /\ held = {}
    /\ result = NoCall
    /\ work = <<>>
    /\ write_lock = 0

\* the response is handed to the caller; the next request starts after it
Respond ==
    /\ result.op # "none"
    /\ result' = NoCall
    /\ UNCHANGED <<store, held, now, inflight>>

Idle == result.op = "none"

\* the bounds of the model: rows ever inserted, and the clock
DocsBound == next_doc' <= MaxDocs + 1

TagsBound == next_tag' <= MaxTags + 1

ClockBound == now' <= MaxTime

Next ==
    \/ \E user \in DOMAIN users, data \in CreateRequests :
          Idle /\ Create(user, data) /\ DocsBound /\ TagsBound
    \/ \E user \in DOMAIN users, id \in DocumentIds :
          Idle /\ GetById(user, id)
    \/ \E user \in DOMAIN users, filters \in ListFilters :
          Idle /\ List(user, filters)
    \/ \E user \in DOMAIN users, id \in DocumentIds, data \in UpdateRequests :
          Idle /\ Update(user, id, data) /\ TagsBound
    \/ \E user \in DOMAIN users, id \in DocumentIds :
          Idle /\ Delete(user, id)
    \/ \E user \in DOMAIN users, id \in DocumentIds, archived \in BOOLEAN :
          Idle /\ Archive(user, id, archived)
    \/ \E user \in DOMAIN users, id \in DocumentIds, pinned \in BOOLEAN :
          Idle /\ Pin(user, id, pinned)
    \/ Idle /\ Tick(1) /\ ClockBound
    \/ Respond

Spec == Init /\ [][Next]_vars

-----------------------------------------------------------------------------
(* The authentication service, called one request at a time *)

Emails == {"alice@x.com", "bob@x.com"}

Passwords == {"Passw0rd", "Secret1x"}

RegisterRequests ==
    [email : Emails, username : {<<"A", "b", "a">>, <<"a", "b", "a">>, <<"b", "a", "b">>}, password : {"Passw0rd"}]

LoginRequests == [email : Emails \cup {"nobody@x.com"}, password : Passwords]

UserUpdateRequests == [username : {Some(<<"B", "a", "b">>)}, settings : {None}]

\* a token with the claims of t that was not signed with secret_key
Forged(t) == [t EXCEPT !.key = "another-key"]

\* the tokens a caller can present: the kept ones, and forgeries of them
PresentedTokens == held \cup {Forged(t) : t \in held}

AuthInit ==
    /\ now = 0
    /\ users = <<>>
    /\ next_user = 1
    /\ docs = <<>>
    /\ next_doc = 1
    /\ tags = <<>>
    /\ next_tag = 1
    /\ document_tags = {}
    /\ held = {}
    /\ result = NoCall
    /\ work = <<>>
    /\ write_lock = 0

UsersBound == next_user' <= MaxUsers + 1

\* the clock runs MaxTime seconds, jumps once by the lifetime of a refresh
\* token, and runs MaxTime seconds again
JumpBound(delta) ==
    IF delta = 1 THEN now % days(jwt_refresh_token_expire_days) < MaxTime
    ELSE now < delta

AuthNext ==
    \/ \E raw \in RegisterRequests, keep \in BOOLEAN :
          Idle /\ Register(raw, keep) /\ UsersBound
    \/ \E data \in LoginRequests, keep \in BOOLEAN :
          Idle /\ Login(data, keep)
    \/ \E token \in PresentedTokens, keep \in BOOLEAN :
          Idle /\ RefreshTokens(token, keep)
    \/ \E user \in DOMAIN users :
          Idle /\ Logout(user)
    \/ \E user \in DOMAIN users, data \in UserUpdateRequests :
          Idle /\ UpdateUser(user, data)
    \/ \E user \in DOMAIN users, old_password, new_password \in Passwords :
          Idle /\ ChangePassword(user, old_password, new_password)
    \/ \E user \in DOMAIN users :
          Idle /\ Deactivate(user)
    \/ \E user \in DOMAIN users :
          Idle /\ RemoveUser(user)
    \/ \E delta \in {1, days(jwt_refresh_token_expire_days)} :
          Idle /\ JumpBound(delta) /\ Tick(delta)
    \/ Respond

AuthSpec == AuthInit /\ [][AuthNext]_vars

-----------------------------------------------------------------------------
(* Tokens issued and verified directly *)

Subjects == {1, 2}

\* expires_delta in seconds; None takes the configured lifetime
Lifetimes == {None, Some(0), Some(1)}

TokenTypes == {"access", "refresh"}

TokenInit == AuthInit

\* the clock runs MaxTime seconds, and again after each of its two jumps: by
\* the lifetime of an access token, and by the lifetime of a refresh token
TokenJumpBound(delta) ==
    IF delta = 1 THEN now % minutes(jwt_access_token_expire_minutes) < MaxTime
    ELSE now < delta

TokenNext ==
    \/ \E subject \in Subjects, expires_delta \in Lifetimes :
          Idle /\ CreateAccessToken(subject, expires_delta)
    \/ \E subject \in Subjects, expires_delta \in Lifetimes :
          Idle /\ CreateRefreshToken(subject, expires_delta)
    \/ \E user_id \in Subjects :
          Idle /\ CreateTokenPair(user_id)
    \/ \E token \in PresentedTokens, token_type \in TokenTypes :
          Idle /\ VerifyToken(token, token_type)
    \/ \E delta \in {1, minutes(jwt_access_token_expire_minutes),
                      days(jwt_refresh_token_expire_days)} :
          Idle /\ TokenJumpBound(delta) /\ Tick(delta)
    \/ Respond

TokenSpec == TokenInit /\ [][TokenNext]_vars

-----------------------------------------------------------------------------
(* Properties of the document service, checked under Spec *)

MutatingCalls == {"update", "delete", "archive", "pin"}

\* C1: update, delete, archive and pin called by a user who does not own the
\* document answer 403 Forbidden and leave the document as it was: its row
\* (fields and last_accessed), its tag associations and its existence.
C1_NonOwnerCallChangesNothing ==
    [][(/\ Idle
        /\ result'.op \in MutatingCalls
        /\ result'.arg \in DOMAIN docs
        /\ docs[result'.arg].user_id # result'.user)
          => (/\ result'.status = HTTP_403_FORBIDDEN
              /\ result'.arg \in DOMAIN docs'
              /\ docs'[result'.arg] = docs[result'.arg]
              /\ TagsOf(document_tags', result'.arg) = TagsOf(document_tags, result'.arg)
              /\ docs' = docs
              /\ document_tags' = document_tags)]_vars

\* a non-owner was refused on a document that has tags and was last accessed
\* before the call
C1_NonOwnerRefused ==
    /\ result.op \in MutatingCalls
    /\ result.status = HTTP_403_FORBIDDEN
    /\ result.arg \in DOMAIN docs
    /\ docs[result.arg].user_id # result.user
    /\ TagsOf(document_tags, result.arg) # {}
    /\ docs[result.arg].last_accessed < now

\* C2: get_by_id answers 404 NotFound exactly when no document has the id,
\* 403 Forbidden exactly when the document exists and another user owns it,
\* and returns the document only to its owner.
C2_GetByIdErrors ==
    result.op = "get_by_id" =>
        /\ result.status \in {HTTP_200_OK, HTTP_403_FORBIDDEN, HTTP_404_NOT_FOUND}
        /\ result.status = HTTP_404_NOT_FOUND <=> result.arg \notin DOMAIN docs
        /\ result.status = HTTP_403_FORBIDDEN <=>
               (result.arg \in DOMAIN docs /\ docs[result.arg].user_id # result.user)
        /\ result.status = HTTP_200_OK <=> result.body # None
        /\ result.body # None =>
               (/\ result.arg \in DOMAIN docs
                /\ docs[result.arg].user_id = result.user
                /\ result.body = Some(docs[result.arg]))

\* get_by_id refused a user the document of another user
C2_ForeignDocumentForbidden ==
    /\ result.op = "get_by_id"
    /\ result.status = HTTP_403_FORBIDDEN
    /\ result.arg \in DOMAIN docs
    /\ docs[result.arg].user_id # result.user

\* combinations of the filters that select rows
FilterCombinations ==
    {[DefaultFilters EXCEPT !.query = q, !.is_pinned = p, !.is_archived = a] :
        q \in {None, Some(<<"B">>)}, p \in {None, Some(FALSE)},
        a \in {None, Some(TRUE)}}

\* C3: each document list returns is owned by the acting user and total is
\* at most the number of documents the user owns: for every list call made,
\* and in every state for every user and every combination of the filters
\* (where total is the number of the user's documents when only the archived
\* filter is set).
C3_ListOnlyOwnDocuments ==
    /\ (result.op = "list" /\ result.status = HTTP_200_OK) =>
          LET owned == {d \in DOMAIN docs : docs[d].user_id = result.user}
          IN  /\ \A i \in 1..Len(result.body.documents) :
                    result.body.documents[i] \in owned
              /\ result.body.total <= Cardinality(owned)
    /\ \A user \in DOMAIN users, filters \in FilterCombinations :
          \A r \in list(user, filters) :
              LET owned == {d \in DOMAIN docs : docs[d].user_id = user}
              IN  /\ ~r.raises
                  /\ \A i \in 1..Len(r.documents) : r.documents[i] \in owned
                  /\ r.total <= Cardinality(owned)
                  /\ (filters.query = None /\ filters.is_pinned = None)
                        => r.total = Cardinality({d \in owned :
                              docs[d].is_archived =
                                 (filters.is_archived = Some(TRUE))})

\* a user listed documents while a document of another user matched the
\* filters, and got none of it
C3_ForeignDocumentNotListed ==
    /\ result.op = "list"
    /\ result.status = HTTP_200_OK
    /\ \E d \in DOMAIN docs :
          /\ docs[d].user_id # result.user
          /\ Matches_any_owner(docs[d], result.user, result.arg)
    /\ result.body.total = 0

\* the archived flag the rows of a list with these filters must have
ArchivedWanted(filters) ==
    IF filters.is_archived = None THEN FALSE ELSE filters.is_archived[1]

\* C13: list without the archived filter returns no archived document, list
\* with archived = true returns only archived documents and list with
\* archived = false only documents that are not archived: for every list
\* call made, and in every state for every user and each of the three
\* settings of the filter.
C13_ArchivedFilter ==
    /\ (result.op = "list" /\ result.status = HTTP_200_OK) =>
          \A i \in 1..Len(result.body.documents) :
              docs[result.body.documents[i]].is_archived = ArchivedWanted(result.arg)
    /\ \A user \in DOMAIN users, archived \in {None, Some(TRUE), Some(FALSE)} :
          LET filters == [DefaultFilters EXCEPT !.is_archived = archived]
          IN  \A r \in list(user, filters) :
                  /\ ~r.raises
                  /\ \A i \in 1..Len(r.documents) :
                        docs[r.documents[i]].is_archived = ArchivedWanted(filters)
                  /\ \A d \in DOMAIN docs :
                        (docs[d].user_id = user
                            /\ docs[d].is_archived = ArchivedWanted(filters))
                          => \E i \in 1..Len(r.documents) : r.documents[i] = d

\* a user who owns an archived document listed without the archived filter
\* and got nothing
C13_ArchivedDocumentHidden ==
    /\ result.op = "list"
    /\ result.status = HTTP_200_OK
    /\ result.arg = DefaultFilters
    /\ \E d \in DOMAIN docs : docs[d].user_id = result.user /\ docs[d].is_archived
    /\ result.body.total = 0
    /\ result.body.documents = <<>>

\* the sortable columns the list operation is specified to accept
SortAllowList == {"updated_at", "created_at", "title"}

\* C16: a list call with a sort_by outside {updated_at, created_at, title},
\* the name of another column or attribute of Document included, does not
\* fail and sorts by the default column updated_at.
C16_SortByAllowList ==
    (result.op = "list" /\ result.arg.sort_by \notin SortAllowList) =>
        /\ result.status = HTTP_200_OK
        /\ sort_column(result.arg.sort_by) = "updated_at"

\* the names of the tags associated with a document in tables T and DT
TagNamesOf(T, DT, document_id) ==
    {T[dt[2]].name : dt \in TagsOf(DT, document_id)}

\* the distinct normalized non-empty names of a tag list
DesiredNames(tag_names) ==
    {NormalizeTagName(tag_names[i]) : i \in 1..Len(tag_names)} \ {<<>>}

\* C17: an update by the owner that carries a tag list succeeds, also when
\* names of the list coincide after normalization, and leaves the document
\* with exactly one association per distinct normalized non-empty name.
C17_DuplicateNamesApplyOnce ==
    [][\A user \in DOMAIN users, id \in DOMAIN docs, tag_names \in TagLists :
          (/\ Idle
           /\ docs[id].user_id = user
           /\ Update(user, id, [NoUpdate EXCEPT !.tags = Some(tag_names)]))
             => (/\ result'.status = HTTP_200_OK
                 /\ TagNamesOf(tags', document_tags', id) = DesiredNames(tag_names)
                 /\ Cardinality(TagsOf(document_tags', id))
                       = Cardinality(DesiredNames(tag_names)))]_vars

-----------------------------------------------------------------------------
(* Properties of the authentication service, checked under AuthSpec *)

\* C4: every failed login answers with one and the same error, status and
\* message, whether the email is unknown, the password is wrong or the
\* account is inactive: no two failed logins in a state differ.
C4_LoginFailsWithOneError ==
    \A d, e \in LoginRequests :
        (login(d).status # HTTP_200_OK /\ login(e).status # HTTP_200_OK)
            => /\ login(d).status = login(e).status
               /\ login(d).detail = login(e).detail

\* C5: every failed refresh_tokens answers with one and the same error,
\* status and message, whether the token fails verification (forged, expired,
\* of the other kind), its subject is gone or its subject is inactive.
C5_RefreshFailsWithOneError ==
    \A t, u \in PresentedTokens :
        (refresh_tokens(t).status # HTTP_200_OK /\ refresh_tokens(u).status # HTTP_200_OK)
            => /\ refresh_tokens(t).status = refresh_tokens(u).status
               /\ refresh_tokens(t).detail = refresh_tokens(u).detail

C9_DuplicateRegisterConflicts ==
    [][(/\ Idle
        /\ result'.op = "register"
        /\ (ByEmail(result'.arg.email) # {} \/ ByUsername(result'.arg.username) # {}))
          => (/\ result'.status = HTTP_409_CONFLICT
              /\ users' = users
              /\ next_user' = next_user)]_vars

\* a register call with a new email and a taken username was refused, after
\* the existing user had changed its password
C9_UsernameTaken ==
    /\ result.op = "register"
    /\ result.status = HTTP_409_CONFLICT
    /\ ByEmail(result.arg.email) = {}
    /\ \E u \in ByUsername(result.arg.username) :
          users[u].password_hash # hash_password(result.arg.password)

\* login with the email of the user whose change_password call result holds
LoginAfterChange(password) ==
    login([email |-> users[result.user].email, password |-> password])

\* C10 as stated: after a successful change_password(user, old, new), login
\* with the new password succeeds and login with the old password fails with
\* 401, for every accepted pair, new equal to old included.
C10_OldPasswordFails ==
    (/\ result.op = "change_password"
     /\ result.status = HTTP_200_OK
     /\ users[result.user].is_active)
        => /\ LoginAfterChange(result.arg[2]).status = HTTP_200_OK
           /\ LoginAfterChange(result.arg[1]).status = HTTP_401_UNAUTHORIZED

\* C10: after a successful change_password(user, old, new) of an active
\* account, login with the new password succeeds, and login with the old
\* password fails with 401 exactly when the old password differs from the new.
C10_OldPasswordFailsWhenDifferent ==
    (/\ result.op = "change_password"
     /\ result.status = HTTP_200_OK
     /\ users[result.user].is_active)
        => /\ LoginAfterChange(result.arg[2]).status = HTTP_200_OK
           /\ LoginAfterChange(result.arg[2]).user = result.user
           /\ result.arg[1] # result.arg[2] <=>
                  LoginAfterChange(result.arg[1]).status = HTTP_401_UNAUTHORIZED

\* an active account changed its password to a different one
C10_PasswordChanged ==
    /\ result.op = "change_password"
    /\ result.status = HTTP_200_OK
    /\ users[result.user].is_active
    /\ result.arg[1] # result.arg[2]
    /\ users[result.user].password_hash = hash_password(result.arg[2])

\* login with the email of user and the password its row stores
LoginWithStoredPassword(user) ==
    login([email |-> users[user].email, password |-> users[user].password_hash.secret])

\* C11: change_password with an old password that is not the stored one
\* answers 400 BadRequest and leaves the row of the user as it was, its
\* password hash and its updated_at included; login with the previous
\* password answers after the call what it answered before, and succeeds
\* for an active account.
C11_WrongOldPasswordChangesNothing ==
    [][\A user \in DOMAIN users :
          (/\ Idle
           /\ result'.op = "change_password"
           /\ result'.user = user
           /\ result'.arg[1] # users[user].password_hash.secret)
             => (/\ result'.status = HTTP_400_BAD_REQUEST
                 /\ users'[user].password_hash = users[user].password_hash
                 /\ users'[user].updated_at = users[user].updated_at
                 /\ users' = users
                 /\ LoginWithStoredPassword(user)' = LoginWithStoredPassword(user)
                 /\ users[user].is_active =>
                        LoginWithStoredPassword(user)'.status = HTTP_200_OK)]_vars

\* change_password was refused for an active user whose row was last written
\* before the call, and login with the previous password succeeds
C11_WrongOldPasswordRefused ==
    /\ result.op = "change_password"
    /\ result.status = HTTP_400_BAD_REQUEST
    /\ users[result.user].is_active
    /\ users[result.user].updated_at < now
    /\ result.arg[1] # users[result.user].password_hash.secret
    /\ LoginWithStoredPassword(result.user).status = HTTP_200_OK

-----------------------------------------------------------------------------
(* Two registered users update their profiles *)

\* the username of Alice in capitals, the username of Bob, a free username
ProfileUpdateRequests ==
    [username : {None, Some(<<"A", "B", "A">>), Some(<<"b", "a", "b">>),
                 Some(<<"a", "a", "a">>)},
     settings : {None, Some("theme-dark")}]

ProfileNext ==
    \/ \E user \in DOMAIN users, data \in ProfileUpdateRequests :
          Idle /\ UpdateUser(user, data)
    \/ Idle /\ Tick(1) /\ ClockBound
    \/ Respond

ProfileSpec == Init /\ [][ProfileNext]_vars

\* C12: update_user with a username answers 409 Conflict if and only if
\* another user holds that username; with the caller's own username, or
\* without a username, it succeeds; on Conflict the row of the caller keeps
\* its username, its settings and its updated_at.
C12_UsernameConflictOnlyWithOthers ==
    [][\A user \in DOMAIN users :
          (Idle /\ result'.op = "update_user" /\ result'.user = user)
             => LET username == result'.arg.username
                    taken == /\ username # None
                             /\ \E other \in DOMAIN users \ {user} :
                                   users[other].username = username[1]
                IN  /\ result'.status = HTTP_409_CONFLICT <=> taken
                    /\ ~taken => result'.status = HTTP_200_OK
                    /\ (~taken /\ username # None) =>
                           users'[user].username = username[1]
                    /\ taken =>
                           (/\ users'[user].username = users[user].username
                            /\ users'[user].settings = users[user].settings
                            /\ users'[user].updated_at = users[user].updated_at
                            /\ users' = users)]_vars

\* a request with the username of the other user and with settings was
\* refused, at a later second than the caller's row was last written
C12_TakenUsernameRefused ==
    /\ result.op = "update_user"
    /\ result.status = HTTP_409_CONFLICT
    /\ result.arg.settings # None
    /\ users[result.user].settings # json_dumps(result.arg.settings[1])
    /\ users[result.user].updated_at < now

-----------------------------------------------------------------------------
(* Properties of the tokens, checked under TokenSpec *)

\* C7: the tokens of a pair made by create_token_pair(subject) are not
\* interchangeable: the access token verifies as "access" with the subject
\* and is rejected as "refresh", the refresh token verifies as "refresh" with
\* the subject and is rejected as "access"; and no token a caller holds ever
\* verifies as the other kind.
C7_TokenKindsNotInterchangeable ==
    /\ result.op = "create_token_pair" =>
          LET pair == result.body[1]
          IN  /\ verify_token(pair.access_token, "access") # None
              /\ verify_token(pair.access_token, "access")[1].sub = result.user
              /\ verify_token(pair.access_token, "refresh") = None
              /\ verify_token(pair.refresh_token, "refresh") # None
              /\ verify_token(pair.refresh_token, "refresh")[1].sub = result.user
              /\ verify_token(pair.refresh_token, "access") = None
    /\ \A t \in held, k \in TokenTypes :
          verify_token(t, k) # None => t.claims.type = k

\* the refresh token of a pair, still valid as a refresh token, was presented
\* as an access token and rejected
C7_RefreshRejectedAsAccess ==
    /\ result.op = "verify_token"
    /\ Cardinality(held) = 2
    /\ result.arg.token \in held
    /\ result.arg.token.claims.type = "refresh"
    /\ result.arg.token_type = "access"
    /\ result.body = None
    /\ verify_token(result.arg.token, "refresh") # None

\* C8: a token never verifies at a time at or after its expiry; a token
\* issued with a lifetime of 0 fails verification from the instant it is
\* issued.
C8_NoVerificationFromExpiry ==
    \A t \in held, k \in TokenTypes :
        t.claims.exp <= now => verify_token(t, k) = None

-----------------------------------------------------------------------------
(* Lists of several documents, paged and sorted *)

ListCreateRequests ==
    [title : {<<"A", "b">>, <<"B">>}, content : {<<>>}, doc_type : {"note"},
     source_url : {None}, is_pinned : {FALSE}, tags : {<<>>}]

\* pages up to one past the last, page sizes that divide and do not divide
\* the number of documents, the sortable columns in both directions
PageFilters ==
    {[DefaultFilters EXCEPT !.sort_by = c, !.sort_order = o, !.page = p, !.limit = l] :
        c \in {"updated_at", "title"}, o \in {"asc", "desc"},
        p \in 1..(MaxListed + 1), l \in {1, 2}}
      \cup {[DefaultFilters EXCEPT !.is_archived = Some(TRUE), !.limit = 1]}

ListedBound == next_doc' <= MaxListed + 1

ListNext ==
    \/ \E user \in DOMAIN users, data \in ListCreateRequests :
          Idle /\ Create(user, data) /\ ListedBound
    \/ \E user \in DOMAIN users, id \in DOMAIN docs :
          Idle /\ Archive(user, id, TRUE)
    \/ \E user \in DOMAIN users, filters \in PageFilters :
          Idle /\ List(user, filters)
    \/ \E user \in DOMAIN users, filters \in PageFilters :
          Idle /\ ListDocuments(user, filters)
    \/ Idle /\ Tick(1) /\ ClockBound
    \/ Respond

ListSpec == Init /\ [][ListNext]_vars

\* the filters with another page, page size, sort column and direction
Repaged(filters) ==
    {[filters EXCEPT !.page = 1, !.limit = 20],
     [filters EXCEPT !.sort_by = "created_at", !.sort_order = "asc", !.limit = 1]}

\* C14: the total of every list call is the number of documents of the
\* acting user that satisfy the filters, and list with the same filters and
\* another page, page size, sort column or direction gives the same total.
C14_TotalBeforePagination ==
    result.op = "list" =>
        /\ result.status = HTTP_200_OK
        /\ result.body.total =
              Cardinality({d \in DOMAIN docs :
                              /\ docs[d].user_id = result.user
                              /\ Matches(docs[d], result.user, result.arg)})
        /\ \A filters \in Repaged(result.arg) :
              \A r \in list(result.user, filters) :
                  ~r.raises /\ r.total = result.body.total

\* a user with two matching documents asked for the second page of size one
\* and got one document and the total two
C14_SecondPageOfTwo ==
    /\ result.op = "list"
    /\ result.arg.page = 2
    /\ result.arg.limit = 1
    /\ Len(result.body.documents) = 1
    /\ result.body.total = 2

\* the number of documents of the acting user that match the filters of the
\* call in result
MatchingCount ==
    Cardinality({d \in DOMAIN docs :
                    /\ docs[d].user_id = result.user
                    /\ Matches(docs[d], result.user, result.arg)})

\* the items page p holds when N documents are paged by L
PageLength(N, L, p) ==
    LET last == IF N = 0 THEN 0 ELSE (N + L - 1) \div L
    IN  IF p < last THEN L
        ELSE IF p = last THEN (IF N % L = 0 THEN L ELSE N % L)
        ELSE 0

\* C15: for N matching documents and page size L the list endpoint answers
\* with pages = ceil(N / L) (0 when N = 0); every page before the last holds
\* L items, the last page N mod L items (L when L divides N), and every page
\* after the last is empty.
C15_EndpointPages ==
    result.op = "list_documents" =>
        /\ result.status = HTTP_200_OK
        /\ result.body.pages =
              (IF MatchingCount = 0 THEN 0
               ELSE (MatchingCount + result.arg.limit - 1) \div result.arg.limit)
        /\ Len(result.body.items) =
              PageLength(MatchingCount, result.arg.limit, result.arg.page)

-----------------------------------------------------------------------------
(* Documents tagged, and tagged again *)

RetagLists ==
    {<<>>, << <<"W">> >>, << <<"b">> >>, << <<"w">>, <<"B">> >>,
     << <<"w">>, <<" ", "W", " ">> >>, << <<" ">> >>}

TaggedBound == next_tag' <= MaxTagged + 1

TagNext ==
    \/ \E user \in DOMAIN users, data \in CreateRequests :
          Idle /\ Create(user, data) /\ DocsBound /\ TaggedBound
    \/ \E user \in DOMAIN users, id \in DocumentIds, tag_names \in RetagLists :
          Idle /\ Update(user, id, [NoUpdate EXCEPT !.tags = Some(tag_names)])
               /\ TaggedBound
    \/ \E user \in DOMAIN users, id \in DocumentIds :
          Idle /\ Delete(user, id)
    \/ Respond

TagSpec == Init /\ [][TagNext]_vars

\* C18: after a successful update that carries a tag list, the names of the
\* tags associated with the document are exactly the normalized non-empty
\* names of the list, whatever was associated before; after an empty list
\* the document has no association.
C18_TagsFullyReplaced ==
    [][\A user \in DOMAIN users, id \in DOMAIN docs, tag_names \in RetagLists :
          (/\ Idle
           /\ docs[id].user_id = user
           /\ Update(user, id, [NoUpdate EXCEPT !.tags = Some(tag_names)])
           /\ result'.status = HTTP_200_OK)
             => (/\ TagNamesOf(tags', document_tags', id) = DesiredNames(tag_names)
                 /\ Cardinality(TagsOf(document_tags', id))
                       = Cardinality(DesiredNames(tag_names))
                 /\ DesiredNames(tag_names) = {} => TagsOf(document_tags', id) = {}
                 /\ \A dt \in TagsOf(document_tags', id) :
                       dt[2] \in DOMAIN tags' /\ tags'[dt[2]].user_id = user)]_vars

\* an update left a document with the tag b alone, while the tag w that the
\* document had before still exists
C18_OtherTagReplaced ==
    /\ result.op = "update"
    /\ result.status = HTTP_200_OK
    /\ result.arg \in DOMAIN docs
    /\ TagNamesOf(tags, document_tags, result.arg) = {<<"b">>}
    /\ \E t \in DOMAIN tags :
          tags[t].name = <<"w">> /\ tags[t].user_id = result.user

-----------------------------------------------------------------------------
(* Partial updates of a document *)

\* a request with every field, and the value each field gets
FullUpdate ==
    [title |-> Some(<<"B">>), content |-> Some(<<"w">>), doc_type |-> Some("pdf"),
     source_url |-> Some("http://x"), is_pinned |-> Some(TRUE),
     is_archived |-> Some(TRUE), tags |-> Some(<< <<"b">> >>)]

UpdateFields == DOMAIN FullUpdate

\* no field, one field alone, each field left out
PartialUpdates ==
    {NoUpdate, [NoUpdate EXCEPT !.is_pinned = Some(TRUE)]}
        \cup {[FullUpdate EXCEPT ![f] = None] : f \in UpdateFields}

\* the documents are created with a tag, so that every field has a value
\* an update could lose
UpdateNext ==
    \/ \E user \in DOMAIN users, data \in {d \in CreateRequests : d.tags # <<>>} :
          Idle /\ Create(user, data) /\ DocsBound /\ TaggedBound
    \/ \E user \in DOMAIN users, id \in DocumentIds, data \in PartialUpdates :
          Idle /\ Update(user, id, data) /\ TaggedBound
    \/ Idle /\ Tick(1) /\ ClockBound
    \/ Respond

UpdateSpec == Init /\ [][UpdateNext]_vars

\* C19: an update changes no field that its request leaves out: title,
\* content, doc_type, source_url, is_pinned, is_archived and the tag
\* associations of the document are after the call what they were before it
\* unless the request provides them; the owner and created_at never change.
C19_AbsentFieldsUnchanged ==
    [][\A user \in DOMAIN users, id \in DOMAIN docs, data \in PartialUpdates :
          (/\ Idle
           /\ result'.op = "update"
           /\ result'.user = user
           /\ result'.arg = id
           /\ Update(user, id, data))
             => (/\ id \in DOMAIN docs'
                 /\ data.title = None => docs'[id].title = docs[id].title
                 /\ data.content = None =>
                       (/\ docs'[id].content_raw = docs[id].content_raw
                        /\ docs'[id].content_plain = docs[id].content_plain)
                 /\ data.doc_type = None => docs'[id].doc_type = docs[id].doc_type
                 /\ data.source_url = None => docs'[id].source_url = docs[id].source_url
                 /\ data.is_pinned = None => docs'[id].is_pinned = docs[id].is_pinned
                 /\ data.is_archived = None =>
                       docs'[id].is_archived = docs[id].is_archived
                 /\ data.tags = None =>
                       (/\ TagsOf(document_tags', id) = TagsOf(document_tags, id)
                        /\ tags' = tags)
                 /\ docs'[id].user_id = docs[id].user_id
                 /\ docs'[id].created_at = docs[id].created_at
                 /\ docs'[id].source_type = docs[id].source_type)]_vars

\* an update pinned a tagged document at a later second than it was created,
\* and the document has the title, the type and the archived flag it was
\* created with
C19_OnlyPinnedChanged ==
    /\ result.op = "update"
    /\ result.status = HTTP_200_OK
    /\ result.arg \in DOMAIN docs
    /\ docs[result.arg].is_pinned
    /\ docs[result.arg].title = <<"A", "b">>
    /\ docs[result.arg].doc_type = "note"
    /\ ~docs[result.arg].is_archived
    /\ TagsOf(document_tags, result.arg) # {}
    /\ docs[result.arg].created_at < docs[result.arg].updated_at

-----------------------------------------------------------------------------
(* Deleting a document, under TagSpec *)

\* the ids given to documents that are no longer in the table: delete is the
\* only operation that removes a row
DeletedIds == (1..(next_doc - 1)) \ DOMAIN docs

\* C20: after a successful delete the document is gone: the id of the call
\* is not in the table, and for every id that was deleted get_by_id raises
\* NotFoundError for every user, list returns it for no user and no filter,
\* and no document-tag association names it.
C20_DeletedDocumentGone ==
    /\ (result.op = "delete" /\ result.status = HTTP_200_OK)
          => result.arg \in DeletedIds
    /\ \A id \in DeletedIds :
          /\ TagsOf(document_tags, id) = {}
          /\ \A user \in DOMAIN users :
                /\ get_by_id(user, id).status = HTTP_404_NOT_FOUND
                /\ \A filters \in FilterCombinations :
                      \A r \in list(user, filters) :
                         \A i \in 1..Len(r.documents) : r.documents[i] # id

\* the owner deleted the document, and a tag that was made for a document
\* is still in the tags table
C20_TaggedDocumentDeleted ==
    /\ result.op = "delete"
    /\ result.status = HTTP_200_OK
    /\ result.arg \in DeletedIds
    /\ tags # <<>>
    /\ document_tags = {}

-----------------------------------------------------------------------------
(* A failing update, under Spec *)

\* C29: an update that passes the ownership check and then fails (the flush
\* of the tag associations raises) persists nothing: the documents, tags and
\* document_tags tables are after the call what they were before it,
\* last_accessed of the document included.
C29_FailedUpdatePersistsNothing ==
    [][(/\ Idle
        /\ result'.op = "update"
        /\ result'.status = HTTP_500_INTERNAL_SERVER_ERROR)
          => UNCHANGED <<docs, tags, document_tags>>]_vars

-----------------------------------------------------------------------------
(* Paging through a fixed store, under ListSpec *)

\* the sort columns, directions and page sizes the paging is checked for
PagingFilters ==
    {[DefaultFilters EXCEPT !.sort_by = c, !.sort_order = o, !.limit = l] :
        c \in {"updated_at", "title"}, o \in {"asc", "desc"}, l \in {1, 2}}

\* the answers list can give for pages 1..ceil(N/L) of one store, one answer
\* for each page
Pagings(user, filters) ==
    LET N == Cardinality({d \in DOMAIN docs : Matches(docs[d], user, filters)})
        K == pages(N, filters.limit)
        page(p) == list(user, [filters EXCEPT !.page = p])
    IN  {f \in [1..K -> UNION {page(p) : p \in 1..K}] : \A p \in 1..K : f[p] \in page(p)}

\* the places of document d in the pages f
Places(f, d) ==
    {pi \in (DOMAIN f) \X (1..MaxListed) :
        /\ pi[2] <= Len(f[pi[1]].documents)
        /\ f[pi[1]].documents[pi[2]] = d}

\* C28: for a fixed store, fixed filters, sort column, direction and page
\* size L, pages 1..ceil(N/L) together hold every matching document exactly
\* once, also when documents have equal values in the sort column.
C28_PagesHoldEachDocumentOnce ==
    \A user \in DOMAIN users, filters \in PagingFilters :
        \A f \in Pagings(user, filters) :
            \A d \in {e \in DOMAIN docs : Matches(docs[e], user, filters)} :
                Cardinality(Places(f, d)) = 1

-----------------------------------------------------------------------------
(* Requests served concurrently: each runs in an AsyncSession of its own,   *)
(* and the handlers interleave at their awaits.  A session reads the         *)
(* committed tables; what it wrote becomes visible to the others when it     *)
(* commits.  With the default sqlite database one session at a time holds    *)
(* the write lock, from its first INSERT, UPDATE or DELETE to its commit or  *)
(* rollback; a database_url of another database gives no such lock.          *)

Sessions == {1, 2}

\* the session may write: the database has no write lock, or the lock is
\* free, or the session holds it
CanWrite(s) == write_lock \in {-1, 0, s}

\* the first write of a transaction takes the write lock
Locked(s) == IF write_lock = -1 THEN -1 ELSE s

\* commit and rollback release it
Unlocked == IF write_lock = -1 THEN -1 ELSE 0

\* the handler of session s returned or raised
Done(s, status, detail) ==
    [work EXCEPT ![s].pc = "done", ![s].status = status, ![s].detail = detail]

\* the response was sent and the session closed
Finish(s) ==
    /\ s \in DOMAIN work
    /\ work[s].pc = "done"
    /\ work' = Without(work, s)
    /\ UNCHANGED <<store, held, now, result, write_lock>>

\* users.email and users.username without unique=True
UniqueViolation_unchecked(table, id, row) == FALSE

\* unique=True of users.email and of users.username: the INSERT or UPDATE
\* of the row raises IntegrityError
UniqueViolation(table, id, row) ==
    \E u \in DOMAIN table \ {id} :
        table[u].email = row.email \/ table[u].username = row.username

\* a request enters AuthService.register
RegisterBegin(s, raw) ==
    /\ s \notin DOMAIN work
    /\ work' = (s :> [op |-> "register", pc |-> "email", user |-> 0,
                      data |-> UserCreate(raw), loaded |-> None,
                      status |-> 0, detail |-> ""]) @@ work
    /\ UNCHANGED <<store, held, now, result, write_lock>>

\* select(User).where(User.email == data.email)
RegisterCheckEmail(s) ==
    /\ s \in DOMAIN work
    /\ work[s].op = "register"
    /\ work[s].pc = "email"
    /\ work' = IF ByEmail(work[s].data.email) # {}
               THEN Done(s, HTTP_409_CONFLICT, "Email already registered")
               ELSE [work EXCEPT ![s].pc = "username"]
    /\ UNCHANGED <<store, held, now, result, write_lock>>

\* select(User).where(User.username == data.username)
RegisterCheckUsername(s) ==
    /\ s \in DOMAIN work
    /\ work[s].op = "register"
    /\ work[s].pc = "username"
    /\ work' = IF ByUsername(work[s].data.username) # {}
               THEN Done(s, HTTP_409_CONFLICT, "Username already taken")
               ELSE [work EXCEPT ![s].pc = "commit"]
    /\ UNCHANGED <<store, held, now, result, write_lock>>

\* self.db.add(user); commit: the INSERT, or the IntegrityError it raises,
\* which no handler turns into a ConflictError
RegisterCommit(s) ==
    /\ s \in DOMAIN work
    /\ work[s].op = "register"
    /\ work[s].pc = "commit"
    /\ CanWrite(s)
    /\ IF UniqueViolation(users, next_user, User(work[s].data))
       THEN /\ work' = Done(s, HTTP_500_INTERNAL_SERVER_ERROR, "IntegrityError")
            /\ UNCHANGED <<users, next_user>>
       ELSE /\ users' = (next_user :> User(work[s].data)) @@ users
            /\ next_user' = next_user + 1
            /\ work' = [Done(s, HTTP_200_OK, "") EXCEPT ![s].user = next_user]
    /\ UNCHANGED <<docs, next_doc, tags, next_tag, document_tags, held, now, result,
                   write_lock>>

\* a request of user enters AuthService.update_user; the User object was
\* loaded in this session
UpdateUserBegin(s, user, data) ==
    /\ s \notin DOMAIN work
    /\ user \in DOMAIN users
    /\ work' = (s :> [op |-> "update_user",
                      pc |-> IF data.username # None THEN "username" ELSE "commit",
                      user |-> user,
                      data |-> [data EXCEPT !.username =
                                   IF @ # None THEN Some(validate_username(@[1])) ELSE @],
                      loaded |-> Some(users[user]),
                      status |-> 0, detail |-> ""]) @@ work
    /\ UNCHANGED <<store, held, now, result, write_lock>>

\* select(User).where(User.username == data.username, User.id != user.id)
UpdateUserCheck(s) ==
    /\ s \in DOMAIN work
    /\ work[s].op = "update_user"
    /\ work[s].pc = "username"
    /\ work' = IF (ByUsername(work[s].data.username[1]) \ {work[s].user}) # {}
               THEN Done(s, HTTP_409_CONFLICT, "Username already taken")
               ELSE [work EXCEPT ![s].pc = "commit"]
    /\ UNCHANGED <<store, held, now, result, write_lock>>

\* commit: the UPDATE sets the attributes whose value differs from the
\* loaded one, and updated_at
UpdateUserCommit(s) ==
    /\ s \in DOMAIN work
    /\ work[s].op = "update_user"
    /\ work[s].pc = "commit"
    /\ work[s].user \in DOMAIN users
    /\ CanWrite(s)
    /\ LET data == work[s].data
           loaded == work[s].loaded[1]
           row == [users[work[s].user] EXCEPT
                      !.username = IF data.username # None
                                      /\ data.username[1] # loaded.username
                                   THEN data.username[1] ELSE @,
                      !.settings = IF data.settings # None
                                      /\ json_dumps(data.settings[1]) # loaded.settings
                                   THEN json_dumps(data.settings[1]) ELSE @,
                      !.updated_at = now]
       IN  IF UniqueViolation(users, work[s].user, row)
           THEN /\ work' = Done(s, HTTP_500_INTERNAL_SERVER_ERROR, "IntegrityError")
                /\ UNCHANGED users
           ELSE /\ users' = [users EXCEPT ![work[s].user] = row]
                /\ work' = Done(s, HTTP_200_OK, "")
    /\ UNCHANGED <<next_user, docs, next_doc, tags, next_tag, document_tags, held, now,
                   result, write_lock>>

\* the registrations and profile updates that race
RaceRegisterRequests ==
    [email : Emails, username : {<<"a", "b", "a">>, <<"B", "a", "b">>},
     password : {"Passw0rd"}]

RaceUserUpdateRequests ==
    [username : {Some(<<"a", "b", "a">>), Some(<<"b", "a", "b">>)}, settings : {None}]

\* the rows inserted and the rows the registrations in flight may insert
RegisteringBound ==
    next_user + Cardinality({s \in DOMAIN work : work[s].op = "register"}) <= MaxRegistering

AuthRaceNext ==
    \/ \E s \in Sessions, raw \in RaceRegisterRequests :
          RegisteringBound /\ RegisterBegin(s, raw)
    \/ \E s \in Sessions : RegisterCheckEmail(s)
    \/ \E s \in Sessions : RegisterCheckUsername(s)
    \/ \E s \in Sessions : RegisterCommit(s)
    \/ \E s \in Sessions, user \in DOMAIN users, data \in RaceUserUpdateRequests :
          UpdateUserBegin(s, user, data)
    \/ \E s \in Sessions : UpdateUserCheck(s)
    \/ \E s \in Sessions : UpdateUserCommit(s)
    \/ \E s \in Sessions : Finish(s)

AuthRaceSpec == AuthInit /\ [][AuthRaceNext]_vars

\* C21: no two users have the same email and no two users have the same
\* username, in every state that interleaved register and update_user calls
\* reach.
C21_EmailAndUsernameUnique ==
    \A u, v \in DOMAIN users :
        u # v => /\ users[u].email # users[v].email
                 /\ users[u].username # users[v].username

\* two registrations, both past their checks of the same email, have
\* finished: the one that committed first is stored, the other is not
C21_RacingRegistrationKeptOut ==
    /\ DOMAIN work = Sessions
    /\ \A s \in Sessions : work[s].op = "register" /\ work[s].pc = "done"
    /\ work[1].data.email = work[2].data.email
    /\ \E s \in Sessions : work[s].status = HTTP_200_OK
    /\ \E s \in Sessions : work[s].detail = "IntegrityError"
    /\ Cardinality(DOMAIN users) = 1

\* C22: a register call refused because another user holds its email or its
\* username ends with ConflictError, also when the other registration
\* commits between this call's checks and its own commit.
C22_RefusedRegisterIsConflict ==
    \A s \in DOMAIN work :
        (work[s].op = "register" /\ work[s].pc = "done" /\ work[s].status # HTTP_200_OK)
            => work[s].status = HTTP_409_CONFLICT

-----------------------------------------------------------------------------
(* DocumentService.create and DocumentService.update served concurrently,  *)
(* one step for each await.  The rows a session flushed are its own until    *)
(* its commit: new_tags the tags rows it inserted, added the tag ids of the  *)
(* DocumentTag objects it added, deleted the document_tags rows its DELETE   *)
(* removed, loaded the Document as the session read it.                      *)

DocumentWork(op, user, document_id, data, tag_names) ==
    [op |-> op, pc |-> IF op = "create" THEN "flush" ELSE "select",
     user |-> user, document_id |-> document_id, data |-> data,
     loaded |-> None, names |-> tag_names, deleted |-> {}, new_tags |-> <<>>,
     added |-> <<>>, latest |-> FALSE, status |-> 0, detail |-> ""]

\* the transaction of a session ended: nothing is pending in it
Ended(w, status, detail) ==
    [w EXCEPT !.pc = "done", !.status = status, !.detail = detail, !.loaded = None,
              !.names = <<>>, !.deleted = {}, !.new_tags = <<>>, !.added = <<>>]

\* the handler of session s raised, and the session rolled back
RolledBack(s, status, detail) == [work EXCEPT ![s] = Ended(@, status, detail)]

\* the handler of session s committed, after the other sessions in flight
Committed(s) ==
    [t \in DOMAIN work |->
        IF t = s
        THEN [Ended(work[s], HTTP_200_OK, "") EXCEPT !.latest = TRUE]
        ELSE [work[t] EXCEPT !.latest = FALSE]]

\* select(Tag).where(Tag.name == tag_name) without Tag.user_id == user.id
FindTag_any_owner(T, user, tag_name) ==
    {t \in DOMAIN T : T[t].name = tag_name}

\* select(Tag).where(Tag.user_id == user.id, Tag.name == tag_name)
FindTag(T, user, tag_name) ==
    {t \in DOMAIN T : T[t].user_id = user /\ T[t].name = tag_name}

\* uq_user_tag_name: a tags row the session inserted has the owner and the
\* name of a committed row
TagConflict(new_tags) ==
    \E t \in DOMAIN new_tags, c \in DOMAIN tags :
        tags[c].user_id = new_tags[t].user_id /\ tags[c].name = new_tags[t].name

\* the primary key of document_tags: two added rows are equal, or an added
\* row is a committed row that the session's DELETE did not remove
AssociationConflict(document_id, added, deleted) ==
    \/ HasDuplicate(added)
    \/ \E i \in 1..Len(added) :
          <<document_id, added[i]>> \in document_tags \ deleted

\* a request enters DocumentService.create
CreateBegin(s, user, data) ==
    /\ s \notin DOMAIN work
    /\ work' = (s :> DocumentWork("create", user, 0, data, data.tags)) @@ work
    /\ UNCHANGED <<store, held, now, result, write_lock>>

\* CreateFlush with a commit after the flush
CreateFlush_committing(s) ==
    /\ s \in DOMAIN work
    /\ work[s].op = "create"
    /\ work[s].pc = "flush"
    /\ CanWrite(s)
    /\ write_lock' = Locked(s)
    /\ next_doc' = next_doc + 1
    /\ docs' = (next_doc :> Document(work[s].user, work[s].data)) @@ docs
    /\ work' = [work EXCEPT
                   ![s].document_id = next_doc,
                   ![s].loaded = Some(Document(work[s].user, work[s].data)),
                   ![s].pc = IF work[s].data.tags # <<>> THEN "delete" ELSE "commit"]
    /\ UNCHANGED <<users, next_user, tags, next_tag, document_tags, held, now, result>>

\* self.db.add(document); flush: the INSERT, in the session's transaction
CreateFlush(s) ==
    /\ s \in DOMAIN work
    /\ work[s].op = "create"
    /\ work[s].pc = "flush"
    /\ CanWrite(s)
    /\ write_lock' = Locked(s)
    /\ next_doc' = next_doc + 1
    /\ work' = [work EXCEPT
                   ![s].document_id = next_doc,
                   ![s].loaded = Some(Document(work[s].user, work[s].data)),
                   ![s].pc = IF work[s].data.tags # <<>> THEN "delete" ELSE "commit"]
    /\ UNCHANGED <<users, next_user, docs, tags, next_tag, document_tags, held, now, result>>

\* a request enters DocumentService.update
UpdateBegin(s, user, document_id, data) ==
    /\ s \notin DOMAIN work
    /\ work' = (s :> DocumentWork("update", user, document_id, data,
                        IF data.tags # None THEN data.tags[1] ELSE <<>>)) @@ work
    /\ UNCHANGED <<store, held, now, result, write_lock>>

\* get_by_id: the SELECT, NotFoundError, ForbiddenError
UpdateSelect(s) ==
    /\ s \in DOMAIN work
    /\ work[s].op = "update"
    /\ work[s].pc = "select"
    /\ work' = IF work[s].document_id \notin DOMAIN docs
               THEN RolledBack(s, HTTP_404_NOT_FOUND, "Document not found")
               ELSE IF docs[work[s].document_id].user_id # work[s].user
               THEN RolledBack(s, HTTP_403_FORBIDDEN, "Access denied")
               ELSE [work EXCEPT ![s].loaded = Some(docs[work[s].document_id]),
                                 ![s].pc = "touch"]
    /\ UNCHANGED <<store, held, now, result, write_lock>>

\* get_by_id: document.last_accessed = now; commit
UpdateTouch(s) ==
    /\ s \in DOMAIN work
    /\ work[s].op = "update"
    /\ work[s].pc = "touch"
    /\ CanWrite(s)
    /\ docs' = [docs EXCEPT ![work[s].document_id].last_accessed = now,
                            ![work[s].document_id].updated_at = now]
    /\ work' = [work EXCEPT
                   ![s].loaded = Some([work[s].loaded[1] EXCEPT !.last_accessed = now,
                                                                !.updated_at = now]),
                   ![s].pc = IF work[s].data.tags # None THEN "delete" ELSE "commit"]
    /\ UNCHANGED <<users, next_user, next_doc, tags, next_tag, document_tags, held, now,
                   result, write_lock>>

\* _apply_tags: the DELETE of the document's rows, in the session's
\* transaction
ApplyTagsDelete(s) ==
    /\ s \in DOMAIN work
    /\ work[s].op \in {"create", "update"}
    /\ work[s].pc = "delete"
    /\ CanWrite(s)
    /\ write_lock' = Locked(s)
    /\ work' = [work EXCEPT
                   ![s].deleted = TagsOf(document_tags, work[s].document_id),
                   ![s].pc = IF work[s].names # <<>> THEN "tags" ELSE "commit"]
    /\ UNCHANGED <<store, held, now, result>>

\* _apply_tags: one pass of the loop: the name is normalized, an empty name
\* skipped, the tag found among the committed rows and the session's own, or
\* inserted and flushed, and the DocumentTag added
ApplyTagsName(s) ==
    /\ s \in DOMAIN work
    /\ work[s].op \in {"create", "update"}
    /\ work[s].pc = "tags"
    /\ LET tag_name == NormalizeTagName(Head(work[s].names))
           found == FindTag(work[s].new_tags @@ tags, work[s].user, tag_name)
           rest == [work EXCEPT ![s].names = Tail(@),
                                ![s].pc = IF Tail(work[s].names) = <<>>
                                          THEN "commit" ELSE "tags"]
       IN  IF tag_name = <<>>
           THEN work' = rest /\ UNCHANGED next_tag
           ELSE IF found # {}
           THEN /\ work' = [rest EXCEPT ![s].added = Append(@, CHOOSE t \in found : TRUE)]
                /\ UNCHANGED next_tag
           ELSE /\ work' = [rest EXCEPT
                               ![s].new_tags = (next_tag :> Tag(work[s].user, tag_name)) @@ @,
                               ![s].added = Append(@, next_tag)]
                /\ next_tag' = next_tag + 1
    /\ UNCHANGED <<users, next_user, docs, next_doc, tags, document_tags, held, now,
                   result, write_lock>>

\* the commit of create and of update: the flush inserts the DocumentTag
\* rows and, for update, sets the attributes of the document whose value
\* differs from the loaded one; an IntegrityError rolls everything back
DocumentCommit(s) ==
    /\ s \in DOMAIN work
    /\ work[s].op \in {"create", "update"}
    /\ work[s].pc = "commit"
    /\ CanWrite(s)
    /\ write_lock' = Unlocked
    /\ LET w == work[s]
           id == w.document_id
           loaded == w.loaded[1]
           written == ApplyFields(loaded, w.data)
           row == IF w.op = "create" THEN loaded
                  ELSE [c \in DOMAIN docs[id] |->
                           IF c = "updated_at" THEN now
                           ELSE IF written[c] # loaded[c] THEN written[c]
                           ELSE docs[id][c]]
       IN  IF TagConflict(w.new_tags) \/ AssociationConflict(id, w.added, w.deleted)
           THEN /\ work' = RolledBack(s, HTTP_500_INTERNAL_SERVER_ERROR, "IntegrityError")
                /\ UNCHANGED <<docs, tags, document_tags>>
           ELSE /\ docs' = (id :> row) @@ docs
                /\ tags' = w.new_tags @@ tags
                /\ document_tags' =
                      (document_tags \ w.deleted)
                          \cup {<<id, w.added[i]>> : i \in 1..Len(w.added)}
                /\ work' = Committed(s)
    /\ UNCHANGED <<users, next_user, next_doc, next_tag, held, now, result>>

\* the tables of Init, and a database with or without a write lock
RaceInit ==
    /\ now = 0
    /\ users = (1 :> User(UserCreate(Alice))) @@ (2 :> User(UserCreate(Bob)))
    /\ next_user = 3
    /\ docs = <<>>
    /\ next_doc = 1
    /\ tags = <<>>
    /\ next_tag = 1
    /\ document_tags = {}
    /\ held = {}
    /\ result = NoCall
    /\ work = <<>>
    /\ write_lock \in {-1, 0}

\* reconciliations to one name, to another, and to none
RaceTagRequests ==
    {[NoUpdate EXCEPT !.tags = Some(l)] : l \in {<<>>, << <<"w">> >>, << <<"b">> >>}}

\* the sessions whose handler has not ended
Running == {s \in DOMAIN work : work[s].pc # "done"}

RECURSIVE NamesLeft(_)
\* the tag names the sessions in S have not reconciled yet
NamesLeft(S) ==
    IF S = {} THEN 0
    ELSE LET s == CHOOSE t \in S : TRUE
         IN  Len(work[s].names) + NamesLeft(S \ {s})

\* the documents created and the documents the sessions may still create
RacingDocsBound ==
    next_doc + Cardinality({s \in Running : work[s].pc = "flush"}) <= MaxRacing

\* the tags created and the tags the sessions may still create
RacingTagsBound(tag_names) ==
    next_tag - 1 + NamesLeft(Running) + Len(tag_names) <= MaxRacing

DocumentRaceNext ==
    \/ \E s \in Sessions, user \in DOMAIN users, data \in CreateRequests :
          RacingDocsBound /\ RacingTagsBound(data.tags) /\ CreateBegin(s, user, data)
    \/ \E s \in Sessions : CreateFlush(s)
    \/ \E s \in Sessions, user \in DOMAIN users, id \in DOMAIN docs,
          data \in RaceTagRequests :
          RacingTagsBound(data.tags[1]) /\ UpdateBegin(s, user, id, data)
    \/ \E s \in Sessions : UpdateSelect(s)
    \/ \E s \in Sessions : UpdateTouch(s)
    \/ \E s \in Sessions : ApplyTagsDelete(s)
    \/ \E s \in Sessions : ApplyTagsName(s)
    \/ \E s \in Sessions : DocumentCommit(s)
    \/ \E s \in Sessions : Finish(s)

DocumentRaceSpec == RaceInit /\ [][DocumentRaceNext]_vars

\* the tag names a create or update request asks for
RequestedNames(w) ==
    IF w.op = "create" THEN w.data.tags
    ELSE IF w.data.tags # None THEN w.data.tags[1] ELSE <<>>

\* session s commits successfully in this step
Commits(s) ==
    /\ s \in DOMAIN work
    /\ work[s].pc = "commit"
    /\ work'[s].pc = "done"
    /\ work'[s].status = HTTP_200_OK

\* C23: tag reconciliation is atomic: the tags and document_tags tables that
\* other sessions read change only in the step in which a session commits,
\* after that step the associations of the session's document are those of
\* exactly the names it asked for and no other document's associations
\* changed, and a session that fails changes no table in that step.
C23_ReconciliationAtomic ==
    [][/\ (tags' # tags \/ document_tags' # document_tags) =>
             \E s \in DOMAIN work :
                /\ Commits(s)
                /\ TagNamesOf(tags', document_tags', work[s].document_id)
                      = DesiredNames(RequestedNames(work[s]))
                /\ \A d \in DOMAIN docs \ {work[s].document_id} :
                      TagsOf(document_tags', d) = TagsOf(document_tags, d)
       /\ \A s \in DOMAIN work :
             (/\ work[s].pc # "done"
              /\ work'[s].pc = "done"
              /\ work'[s].status # HTTP_200_OK) => UNCHANGED store]_vars

\* C24: there is at most one tag for each owner and name, and no create or
\* update of an owner's document that asks for distinct names ends with a
\* server error, also when two of them introduce the same new name
\* concurrently.
C24_SameNewTagResolved ==
    /\ \A t, c \in DOMAIN tags :
          (tags[t].user_id = tags[c].user_id /\ tags[t].name = tags[c].name) => t = c
    /\ \A s \in DOMAIN work :
          (work[s].op \in {"create", "update"} /\ work[s].pc = "done")
             => work[s].status # HTTP_500_INTERNAL_SERVER_ERROR

\* C25: when two reconciliations of one document have both committed, the
\* later of them last of all sessions, the document is associated with
\* exactly the names of the one or exactly the names of the other.
C25_ReconciliationsSerialized ==
    \A s, t \in DOMAIN work :
        (/\ s # t
         /\ work[s].op = "update" /\ work[t].op = "update"
         /\ work[s].pc = "done" /\ work[t].pc = "done"
         /\ work[s].status = HTTP_200_OK /\ work[t].status = HTTP_200_OK
         /\ work[s].data.tags # None /\ work[t].data.tags # None
         /\ work[s].document_id = work[t].document_id
         /\ work[s].latest)
           => TagNamesOf(tags, document_tags, work[s].document_id)
                 \in {DesiredNames(RequestedNames(work[s])),
                      DesiredNames(RequestedNames(work[t]))}

\* C26: every document_tags row links a document and a tag of one owner, in
\* every state that interleaved create and update calls reach.
C26_AssociationWithinOwner ==
    \A dt \in document_tags :
        /\ dt[1] \in DOMAIN docs
        /\ dt[2] \in DOMAIN tags
        /\ docs[dt[1]].user_id = tags[dt[2]].user_id

\* two users each have a tag of the same name, and each of the two tags is
\* associated with a document
C26_SameNameTwoOwners ==
    \E t, c \in DOMAIN tags :
        /\ tags[t].user_id # tags[c].user_id
        /\ tags[t].name = tags[c].name
        /\ \E dt \in document_tags : dt[2] = t
        /\ \E dt \in document_tags : dt[2] = c

\* C30: create is all-or-nothing: while a create is in flight its document,
\* its new tags and its associations are in no table; when it fails they are
\* in no table afterwards and the step changes nothing; when it commits the
\* document, the new tags and the associations of exactly the requested names
\* are in the tables after that one step.
C30_CreateAllOrNothing ==
    [][\A s \in DOMAIN work :
          (work[s].op = "create" /\ work[s].pc # "done") =>
             LET id == work'[s].document_id
                 absent == /\ id \notin DOMAIN docs'
                           /\ \A t \in DOMAIN work[s].new_tags : t \notin DOMAIN tags'
                           /\ TagsOf(document_tags', id) = {}
             IN  /\ work'[s].pc # "done" => absent
                 /\ (work'[s].pc = "done" /\ work'[s].status # HTTP_200_OK)
                       => absent /\ UNCHANGED store
                 /\ (work'[s].pc = "done" /\ work'[s].status = HTTP_200_OK)
                       => /\ id \in DOMAIN docs'
                          /\ \A t \in DOMAIN work[s].new_tags : t \in DOMAIN tags'
                          /\ TagNamesOf(tags', document_tags', id)
                                = DesiredNames(RequestedNames(work[s]))]_vars

\* a create that asked for a tag failed at its commit, and a create of the
\* same user with the same tag committed
C30_CreateFailed ==
    \E s, t \in DOMAIN work :
        /\ work[s].op = "create" /\ work[t].op = "create"
        /\ work[s].pc = "done" /\ work[t].pc = "done"
        /\ work[s].status = HTTP_500_INTERNAL_SERVER_ERROR
        /\ work[t].status = HTTP_200_OK
        /\ work[s].data.tags # <<>>
        /\ work[s].document_id \notin DOMAIN docs
        /\ work[t].document_id \in DOMAIN docs
        /\ TagsOf(document_tags, work[t].document_id) # {}

-----------------------------------------------------------------------------
(* Concurrent updates of the fields of one document *)

\* two titles, one of them the title documents are created with, and a flag
RaceFieldRequests ==
    {[NoUpdate EXCEPT !.title = Some(<<"B">>)],
     [NoUpdate EXCEPT !.title = Some(<<"A", "b">>)],
     [NoUpdate EXCEPT !.is_pinned = Some(TRUE)]}

\* the documents created and the documents the sessions may still create
RacingFieldsBound ==
    next_doc + Cardinality({s \in Running : work[s].pc = "flush"}) <= MaxDocs

FieldRaceNext ==
    \/ \E s \in Sessions, user \in DOMAIN users,
          data \in {d \in CreateRequests : d.tags = <<>>} :
          RacingFieldsBound /\ CreateBegin(s, user, data)
    \/ \E s \in Sessions : CreateFlush(s)
    \/ \E s \in Sessions, user \in DOMAIN users, id \in DOMAIN docs,
          data \in RaceFieldRequests :
          UpdateBegin(s, user, id, data)
    \/ \E s \in Sessions : UpdateSelect(s)
    \/ \E s \in Sessions : UpdateTouch(s)
    \/ \E s \in Sessions : DocumentCommit(s)
    \/ \E s \in Sessions : Finish(s)

FieldRaceSpec == RaceInit /\ [][FieldRaceNext]_vars

\* the columns a DocumentUpdate without content and tags can set
RacedFields == {"title", "is_pinned"}

\* C27: concurrent updates of a document by its owner all succeed, and when
\* two of them have committed, the later of them last of all sessions, every
\* field both provide has in the store the value the later one provided.
C27_LaterCommitWins ==
    /\ \A s \in DOMAIN work :
          (/\ work[s].op = "update"
           /\ work[s].pc = "done"
           /\ work[s].document_id \in DOMAIN docs
           /\ docs[work[s].document_id].user_id = work[s].user)
             => work[s].status = HTTP_200_OK
    /\ \A s, t \in DOMAIN work :
          (/\ s # t
           /\ work[s].op = "update" /\ work[t].op = "update"
           /\ work[s].pc = "done" /\ work[t].pc = "done"
           /\ work[s].status = HTTP_200_OK /\ work[t].status = HTTP_200_OK
           /\ work[s].document_id = work[t].document_id
           /\ work[s].latest)
             => \A f \in RacedFields :
                   (work[s].data[f] # None /\ work[t].data[f] # None)
                      => docs[work[s].document_id][f] = work[s].data[f][1]

====
